---- MODULE Spec2Model ----
(***************************************************************************)
(* A model of swsssdk: the blockable accessor protocol of DBInterface      *)
(* (src/src/swsssdk/interface.py) and the typed table store of             *)
(* ConfigDBConnector (src/src/swsssdk/configdb.py).                        *)
(*                                                                         *)
(* Several specifications share the module.  Spec is one client process   *)
(* running connect / close / accessor calls, one store command per step,   *)
(* against a store that other processes write to, whose keys can expire    *)
(* and whose transport can fail.                                           *)
(* SpecRegistry is an application connecting and closing two database     *)
(* names (SpecRegistryFair adds the progress of the connecting process).   *)
(* SpecTable is a single writer applying set_entry / mod_entry and the     *)
(* bulk calls to the store, with raw hashes kept in insertion order as the *)
(* store returns them.  SpecCodec encodes and decodes single rows.         *)
(* SpecConfig gives the same whole-table, whole-snapshot and bulk calls to *)
(* ConfigDBConnector and to ConfigDBPipeConnector, each on its own copy of *)
(* the store.  SpecRace is two processes writing one row, one store        *)
(* command per step.                                                       *)
(* SpecListen is a thread in ConfigDBConnector.listen, one store command   *)
(* or handler lookup per step, while other threads register and remove     *)
(* handlers and other processes write rows.  SpecScan is a caller of       *)
(* get_config / get_table and of the cursor enumerations of                *)
(* ConfigDBPipeConnector, one store command or pipeline per step, on a     *)
(* store that also holds keys that are not table formatted (SpecScanFair   *)
(* adds the progress of the caller).  SpecWait is connect waiting for the  *)
(* init indicator while other processes set and delete it (SpecWaitFair    *)
(* adds the progress of the caller).  SpecWriter is the single writer of   *)
(* SpecTable also writing snapshots with mod_config of either connector.   *)
(*                                                                         *)
(* Time is counted in seconds.  A poll of the notification channel that    *)
(* finds a queued message returns at once; a poll on an empty queue takes  *)
(* the whole PUB_SUB_NOTIFICATION_TIMEOUT.  Byte strings and text strings  *)
(* compare equal (python 2 semantics, or matching decode settings).        *)
(***************************************************************************)
EXTENDS Integers, Sequences, FiniteSets, TLC

\* ---------------------------------------------------------------- bounds
MaxCalls == 3
MaxEvents == 2
MaxFailures == 2
MaxRetries == 1

\* ------------------------------------------------------ program constants
CONNECT_RETRY_WAIT_TIME == 10
DATA_RETRIEVAL_WAIT_TIME == 3
PUB_SUB_NOTIFICATION_TIMEOUT == 10
PUB_SUB_MAXIMUM_DATA_WAIT == 60

DbNames == {"CONFIG_DB"}
HashName == "H"
ReadOps == {"keys", "get", "get_all"}
WriteOps == {"set", "delete", "delete_all_by_pattern"}
BlockableOps == ReadOps \cup WriteOps

VARIABLES
    redis_clients,                  \* DBInterface.redis_clients: names with a client
    keyspace_notification_channels, \* names with an open pubsub
    redis_db_map,                   \* names whose db id was recorded
    msgs,                           \* per name: messages queued in its pubsub
    pc,                             \* position of the client process
    cur,                            \* the call in progress: f, db_name, blocking, retry_on
    attempts,                       \* blockable.wrapped: attempts
    start,                          \* _unavailable_data_handler: start
    now,                            \* seconds the current call has been blocked so far
    waited,                         \* of these, seconds spent polling for notifications
    slept,                          \* of these, seconds spent in connection backoff
    result,                         \* how the last call ended
    lastOutcome,                    \* outcome of the last attempt of f
    up,                             \* the store answers this client
    db,                             \* per name: the (field, value) pairs of hash H
    ttl,                            \* names whose hash H carries a timeout
    everPresent,                    \* awaited data was readable at some moment of the call
    healthy,                        \* transport never failed during the call
    inTime,                         \* awaited data is present since before the wait ran out
    ncalls, nevents, nfail,         \* counters bounding the run
    tstore,                         \* table store: store key -> raw hash, <<>> when absent
    tlast,                          \* table store: the last operation and the store before it
    nops,                           \* table store: operations applied so far
    codec,                          \* row codec: a row, its encoding, the decoding of that
    cstore,                         \* snapshot store written by ConfigDBConnector
    pstore,                         \* snapshot store written by ConfigDBPipeConnector
    clast,                          \* snapshot stores: the last operation and its results
    cops,                           \* snapshot stores: operations applied so far
    race,                           \* two writer processes on one row of the store
    lsn,                            \* ConfigDBConnector.listen: handlers, pubsub, dispatches
    scn,                            \* a cursor enumeration of ConfigDBPipeConnector
    wfi,                            \* ConfigDBConnector.__wait_for_db_init
    live                            \* per name: the client objects connected and not yet
                                    \* disconnected, the pubsub objects not yet closed; and
                                    \* whether the call in progress opened a pubsub still open

accVars == <<redis_clients, keyspace_notification_channels, redis_db_map, msgs, pc,
             cur, attempts, start, now, waited, slept, result, lastOutcome, up, db, ttl,
             everPresent, healthy, inTime, ncalls, nevents, nfail, live>>
tblVars == <<tstore, tlast, nops>>
cfgVars == <<codec, cstore, pstore, clast, cops, race>>
ntfVars == <<lsn, scn, wfi>>
vars == <<accVars, tblVars, cfgVars, ntfVars>>

\* ------------------------------------------------------------ the store
\* e.data of the UnavailableDataError each read raises (interface.py 278, 295, 312)
Awaited(f) == IF f = "keys" THEN "hset" ELSE HashName

\* The hash H is the set of its (field, value) pairs, one pair per field.  The
\* accessors are called with the field f; a value is a text or the empty text.
FieldValues == {"", "1"}
Hashes ==
    {h \in SUBSET (({"f"} \X FieldValues) \cup {<<"g", "1">>}) :
        \A p \in h, q \in h : p[1] = q[1] => p = q}

\* HSET H field value
HsetField(fields, field, value) ==
    {p \in fields : p[1] # field} \cup {<<field, value>>}

\* keys / get / get_all find their data (the `if not ...` tests of each
\* accessor): `not val` is true of a field that is missing (HGET answers None)
\* and of a field that holds the empty text
Present(f, fields) ==
    IF f = "get" THEN \E p \in fields : p[1] = "f" /\ p[2] # ""
    ELSE fields # {}

\* A keyspace event on H: the keyspace message carries the event name, the
\* keyevent message the key (KEYSPACE_EVENTS = 'KEA', KEYSPACE_PATTERN matches both)
Notify(q, ev) == q \o <<ev, HashName>>

\* The store after a write accessor ran (hset of val / delete / keys+delete)
WriteEffect(f, fields, val) ==
    IF f = "set" THEN HsetField(fields, "f", val) ELSE {}

Deliver(n, ev) ==
    IF ev # "none" /\ n \in keyspace_notification_channels
    THEN [msgs EXCEPT ![n] = Notify(@, ev)]
    ELSE msgs

NoCall == [f |-> "none", db_name |-> "none", blocking |-> FALSE, retry_on |-> FALSE,
           val |-> "1"]

InCall == pc \notin {"idle", "done"} /\ cur.f \in BlockableOps

\* The wait of _unavailable_data_handler has run out (interface.py 355)
WaitOver == pc = "wait" /\ ~(now - start < PUB_SUB_MAXIMUM_DATA_WAIT)

\* --------------------------------------------------------- DBInterface
\* What if close released the connection only
close_KeepsSubscription(n) ==
    /\ redis_clients' = redis_clients \ {n}
    /\ live' = [live EXCEPT !.clients[n] = IF n \in redis_clients THEN @ - 1 ELSE @]
    /\ UNCHANGED <<keyspace_notification_channels, msgs>>

\* DBInterface.close
close(n) ==
    /\ redis_clients' = redis_clients \ {n}
    /\ keyspace_notification_channels' = keyspace_notification_channels \ {n}
    /\ msgs' = [msgs EXCEPT ![n] = <<>>]
    \* lines 216 and 219: the registered client is disconnected, the registered
    \* pubsub is closed
    /\ live' = [live EXCEPT
                   !.clients[n] = IF n \in redis_clients THEN @ - 1 ELSE @,
                   !.pubsubs[n] = IF n \in keyspace_notification_channels THEN @ - 1 ELSE @,
                   !.opened = @ /\ n \notin keyspace_notification_channels]

\* DBInterface._unsubscribe_keyspace_notification
UnsubscribeKeyspaceNotification(n) ==
    /\ keyspace_notification_channels' = keyspace_notification_channels \ {n}
    /\ msgs' = [msgs EXCEPT ![n] = <<>>]
    /\ live' = [live EXCEPT
                   !.pubsubs[n] = IF n \in keyspace_notification_channels THEN @ - 1 ELSE @,
                   !.opened = @ /\ n \notin keyspace_notification_channels]

\* the objects of a registry: one client per registered name, one pubsub per
\* subscribed name
LiveOf(names, clients, channels) ==
    [clients |-> [n \in names |-> IF n \in clients THEN 1 ELSE 0],
     pubsubs |-> [n \in names |-> IF n \in channels THEN 1 ELSE 0],
     opened |-> FALSE]

Exit(r) ==
    /\ pc' = "done"
    /\ result' = r

envUnchanged == UNCHANGED <<up, db, ttl, nevents, nfail>>
ghostUnchanged == UNCHANGED <<everPresent, healthy, inTime>>
clockUnchanged == UNCHANGED <<start, now, waited, slept>>
restUnchanged == UNCHANGED <<tblVars, cfgVars, ntfVars>>
tblUnchanged == restUnchanged /\ UNCHANGED live

\* ---- the client starts an operation
StartConnect(n, retry) ==
    /\ pc = "idle" /\ ncalls < MaxCalls
    /\ pc' = "connect"
    /\ cur' = [f |-> "connect", db_name |-> n, blocking |-> FALSE, retry_on |-> retry,
               val |-> "1"]
    /\ ncalls' = ncalls + 1
    /\ attempts' = 0 /\ start' = 0 /\ now' = 0 /\ waited' = 0 /\ slept' = 0
    /\ result' = "none" /\ lastOutcome' = "none"
    /\ everPresent' = FALSE /\ healthy' = up /\ inTime' = FALSE
    /\ UNCHANGED <<redis_clients, keyspace_notification_channels, redis_db_map, msgs>>
    /\ envUnchanged /\ tblUnchanged

\* DBInterface.close called by the application
CallClose(n) ==
    /\ pc = "idle" /\ ncalls < MaxCalls
    /\ close(n)
    /\ ncalls' = ncalls + 1
    /\ cur' = [f |-> "close", db_name |-> n, blocking |-> FALSE, retry_on |-> FALSE,
               val |-> "1"]
    /\ Exit("ok")
    /\ UNCHANGED <<redis_db_map, attempts, lastOutcome>>
    /\ clockUnchanged /\ envUnchanged /\ ghostUnchanged /\ restUnchanged

\* DBInterface.get_redis_client: the lookup of DBRegistry.__getitem__
GetRedisClient(n) ==
    /\ pc = "idle" /\ ncalls < MaxCalls
    /\ ncalls' = ncalls + 1
    /\ cur' = [f |-> "get_redis_client", db_name |-> n, blocking |-> FALSE,
               retry_on |-> FALSE, val |-> "1"]
    /\ Exit(IF n \in redis_clients THEN "client" ELSE "MissingClientError")
    /\ UNCHANGED <<redis_clients, keyspace_notification_channels, redis_db_map, msgs,
                   attempts, lastOutcome>>
    /\ clockUnchanged /\ envUnchanged /\ ghostUnchanged /\ tblUnchanged

\* ---- the accessors that are not blockable: what the registry lookup or the
\* store command raises leaves the call
\* the timeouts the application gives to expire, the messages it publishes, and
\* whether the channel it publishes to matches KEYSPACE_PATTERN
ExpireTimeouts == {0, 10}
PublishMessages == {"x", HashName}

\* DBInterface.expire on the key H: EXPIRE answers 0 for a key that does not
\* exist, deletes the key when the timeout is not positive, and sets the
\* timeout otherwise
Expire(n, timeout_sec) ==
    /\ pc = "idle" /\ ncalls < MaxCalls
    /\ ncalls' = ncalls + 1
    /\ cur' = [f |-> "expire", db_name |-> n, blocking |-> FALSE, retry_on |-> FALSE,
               val |-> "1"]
    /\ IF n \notin redis_clients
       THEN /\ Exit("MissingClientError")
            /\ UNCHANGED <<db, ttl, msgs>>
       ELSE IF ~up
       THEN /\ Exit("ConnectionError")
            /\ UNCHANGED <<db, ttl, msgs>>
       ELSE IF db[n] = {}
       THEN /\ Exit("0")
            /\ UNCHANGED <<db, ttl, msgs>>
       ELSE /\ Exit("1")
            /\ db' = IF timeout_sec <= 0 THEN [db EXCEPT ![n] = {}] ELSE db
            /\ ttl' = IF timeout_sec <= 0 THEN ttl \ {n} ELSE ttl \cup {n}
            /\ msgs' = Deliver(n, IF timeout_sec <= 0 THEN "del" ELSE "expire")
    /\ UNCHANGED <<redis_clients, keyspace_notification_channels, redis_db_map,
                   attempts, lastOutcome, up, nevents, nfail>>
    /\ clockUnchanged /\ ghostUnchanged /\ tblUnchanged

\* DBInterface.publish: the message reaches the pubsub of this client when the
\* channel matches the pattern it is subscribed to
Publish(n, matches, message) ==
    /\ pc = "idle" /\ ncalls < MaxCalls
    /\ ncalls' = ncalls + 1
    /\ cur' = [f |-> "publish", db_name |-> n, blocking |-> FALSE, retry_on |-> FALSE,
               val |-> "1"]
    /\ IF n \notin redis_clients
       THEN Exit("MissingClientError") /\ UNCHANGED msgs
       ELSE IF ~up
       THEN Exit("ConnectionError") /\ UNCHANGED msgs
       ELSE /\ Exit("published")
            /\ msgs' = IF matches /\ n \in keyspace_notification_channels
                       THEN [msgs EXCEPT ![n] = Append(@, message)]
                       ELSE msgs
    /\ UNCHANGED <<redis_clients, keyspace_notification_channels, redis_db_map,
                   attempts, lastOutcome>>
    /\ clockUnchanged /\ envUnchanged /\ ghostUnchanged /\ tblUnchanged

\* DBInterface.exists on the key H
Exists(n) ==
    /\ pc = "idle" /\ ncalls < MaxCalls
    /\ ncalls' = ncalls + 1
    /\ cur' = [f |-> "exists", db_name |-> n, blocking |-> FALSE, retry_on |-> FALSE,
               val |-> "1"]
    /\ Exit(IF n \notin redis_clients THEN "MissingClientError"
            ELSE IF ~up THEN "ConnectionError"
            ELSE IF db[n] # {} THEN "1" ELSE "0")
    /\ UNCHANGED <<redis_clients, keyspace_notification_channels, redis_db_map, msgs,
                   attempts, lastOutcome>>
    /\ clockUnchanged /\ envUnchanged /\ ghostUnchanged /\ tblUnchanged

\* blockable.wrapped lines 34-35: a call of f(db_name, ..., blocking=b); val is
\* the value given to set, which the other accessors do not take
StartCall(f, n, b, val) ==
    /\ pc = "idle" /\ ncalls < MaxCalls
    /\ f # "set" => val = "1"
    /\ pc' = "attempt"
    /\ cur' = [f |-> f, db_name |-> n, blocking |-> b, retry_on |-> FALSE, val |-> val]
    /\ ncalls' = ncalls + 1
    /\ attempts' = 0 /\ start' = 0 /\ now' = 0 /\ waited' = 0 /\ slept' = 0
    /\ result' = "none" /\ lastOutcome' = "none"
    /\ everPresent' = Present(f, db[n]) /\ healthy' = up /\ inTime' = Present(f, db[n])
    /\ UNCHANGED <<redis_clients, keyspace_notification_channels, redis_db_map, msgs>>
    /\ envUnchanged /\ tblUnchanged

\* The client goes on to its next operation; what the finished call left in its
\* locals is dropped
Return ==
    /\ pc = "done"
    /\ pc' = "idle"
    /\ cur' = NoCall
    /\ attempts' = 0 /\ start' = 0 /\ now' = 0 /\ waited' = 0 /\ slept' = 0
    /\ result' = "none" /\ lastOutcome' = "none"
    /\ everPresent' = FALSE /\ healthy' = TRUE /\ inTime' = FALSE
    /\ live' = [live EXCEPT !.opened = FALSE]
    /\ UNCHANGED <<redis_clients, keyspace_notification_channels, redis_db_map, msgs, ncalls>>
    /\ envUnchanged /\ restUnchanged

\* ---- blockable.wrapped: one attempt of f and the except clause it lands in
\* What f(inst, db_name, ...) does at line 38: the registry lookup raises
\* MissingClientError, a dead transport raises RedisError, the store may answer a
\* ResponseError, a read that finds nothing raises UnavailableDataError.
FOutcomes ==
    IF pc = "attempt" /\ cur.db_name \notin redis_clients THEN {"MissingClientError"}
    ELSE IF ~up THEN {"RedisError"}
    ELSE {"ResponseError"} \cup
         (IF cur.f \in ReadOps /\ ~Present(cur.f, db[cur.db_name])
          THEN {"UnavailableDataError"} ELSE {"data"})

\* f is at its store command: the only one of keys, get, get_all, set and
\* delete, and for delete_all_by_pattern the KEYS of line 342 ("attempt") or the
\* DELETE of line 344 ("deleting")
AtAttempt(o) ==
    /\ pc \in {"attempt", "deleting"} /\ cur.f \in BlockableOps
    /\ o \in FOutcomes
    /\ lastOutcome' = o

\* lines 38-40: f returned; drop the subscription and return the data
WrappedReturn ==
    /\ AtAttempt("data")
    \* delete_all_by_pattern returns from the KEYS only when it found no key
    /\ (pc = "attempt" /\ cur.f = "delete_all_by_pattern") => db[cur.db_name] = {}
    /\ db' = IF cur.f \in WriteOps
             THEN [db EXCEPT ![cur.db_name] = WriteEffect(cur.f, @, cur.val)] ELSE db
    /\ ttl' = IF cur.f \in WriteOps \ {"set"} THEN ttl \ {cur.db_name} ELSE ttl
    \* a notification of the call's own write dies with the pubsub closed here
    /\ UnsubscribeKeyspaceNotification(cur.db_name)
    /\ Exit("data")
    /\ UNCHANGED <<redis_clients, redis_db_map, cur, attempts, ncalls, up, nevents, nfail>>
    /\ clockUnchanged /\ ghostUnchanged /\ restUnchanged

\* delete_all_by_pattern lines 341-343: KEYS answered with the key H; the DELETE
\* of line 344 is the next command
DeleteAllKeys ==
    /\ pc = "attempt" /\ cur.f = "delete_all_by_pattern"
    /\ "data" \in FOutcomes
    /\ db[cur.db_name] # {}
    /\ pc' = "deleting"
    /\ lastOutcome' = "keys"
    /\ UNCHANGED <<redis_clients, keyspace_notification_channels, redis_db_map, msgs,
                   cur, attempts, result, ncalls>>
    /\ clockUnchanged /\ envUnchanged /\ ghostUnchanged /\ tblUnchanged

\* What if the None return also dropped the subscription, as the data return does
WrappedUnavailableNonBlocking_Unsubscribes ==
    /\ AtAttempt("UnavailableDataError")
    /\ ~cur.blocking
    /\ UnsubscribeKeyspaceNotification(cur.db_name)
    /\ Exit("None")
    /\ UNCHANGED <<redis_clients, redis_db_map, cur, attempts, ncalls>>
    /\ clockUnchanged /\ envUnchanged /\ ghostUnchanged /\ restUnchanged

\* lines 41, 53-54: data missing and blocking is False
WrappedUnavailableNonBlocking ==
    /\ AtAttempt("UnavailableDataError")
    /\ ~cur.blocking
    /\ Exit("None")
    /\ UNCHANGED <<redis_clients, keyspace_notification_channels, redis_db_map, msgs,
                   cur, attempts, ncalls>>
    /\ clockUnchanged /\ envUnchanged /\ ghostUnchanged /\ tblUnchanged

\* lines 42-45: blocking, a subscription is open: enter _unavailable_data_handler
\* (line 353, start = time.time())
WrappedUnavailableWait ==
    /\ AtAttempt("UnavailableDataError")
    /\ cur.blocking
    /\ cur.db_name \in keyspace_notification_channels
    /\ pc' = "wait"
    /\ start' = now
    /\ UNCHANGED <<redis_clients, keyspace_notification_channels, redis_db_map, msgs,
                   cur, attempts, result, ncalls, now, waited, slept>>
    /\ envUnchanged /\ ghostUnchanged /\ tblUnchanged

\* lines 51-52: blocking, no subscription yet: go and subscribe
WrappedUnavailableSubscribe ==
    /\ AtAttempt("UnavailableDataError")
    /\ cur.blocking
    /\ cur.db_name \notin keyspace_notification_channels
    /\ pc' = "subscribe"
    /\ UNCHANGED <<redis_clients, keyspace_notification_channels, redis_db_map, msgs,
                   cur, attempts, result, ncalls>>
    /\ clockUnchanged /\ envUnchanged /\ ghostUnchanged /\ tblUnchanged

\* What if the except clauses were in the other order: ResponseError is a
\* RedisError and would be retried
WrappedResponseError_Retried ==
    /\ AtAttempt("ResponseError")
    /\ attempts' = attempts + 1
    /\ pc' = "ceh_close"
    /\ UNCHANGED <<redis_clients, keyspace_notification_channels, redis_db_map, msgs,
                   cur, result, ncalls>>
    /\ clockUnchanged /\ envUnchanged /\ ghostUnchanged /\ tblUnchanged

\* lines 55-62: a ResponseError is re-raised
WrappedResponseError ==
    /\ AtAttempt("ResponseError")
    /\ Exit("ResponseError")
    /\ UNCHANGED <<redis_clients, keyspace_notification_channels, redis_db_map, msgs,
                   cur, attempts, ncalls>>
    /\ clockUnchanged /\ envUnchanged /\ ghostUnchanged /\ tblUnchanged

\* What if the except clause of line 63 did not count the failure
WrappedRedisError_NoCount ==
    /\ AtAttempt("RedisError")
    /\ pc' = "ceh_close"
    /\ UNCHANGED <<redis_clients, keyspace_notification_channels, redis_db_map, msgs,
                   cur, attempts, result, ncalls>>
    /\ clockUnchanged /\ envUnchanged /\ ghostUnchanged /\ tblUnchanged

\* lines 63-65: any other RedisError or OSError: count it and run
\* _connection_error_handler, whatever `blocking` is
WrappedRedisError ==
    /\ AtAttempt("RedisError")
    /\ attempts' = attempts + 1
    /\ pc' = "ceh_close"
    /\ UNCHANGED <<redis_clients, keyspace_notification_channels, redis_db_map, msgs,
                   cur, result, ncalls>>
    /\ clockUnchanged /\ envUnchanged /\ ghostUnchanged /\ tblUnchanged

\* What if MissingClientError were handled like a connection failure
WrappedMissingClient_Retried ==
    /\ AtAttempt("MissingClientError")
    /\ attempts' = attempts + 1
    /\ pc' = "ceh_close"
    /\ UNCHANGED <<redis_clients, keyspace_notification_channels, redis_db_map, msgs,
                   cur, result, ncalls>>
    /\ clockUnchanged /\ envUnchanged /\ ghostUnchanged /\ tblUnchanged

\* DBRegistry.__getitem__ raised: no except clause of wrapped catches it
WrappedMissingClient ==
    /\ AtAttempt("MissingClientError")
    /\ Exit("MissingClientError")
    /\ UNCHANGED <<redis_clients, keyspace_notification_channels, redis_db_map, msgs,
                   cur, attempts, ncalls>>
    /\ clockUnchanged /\ envUnchanged /\ ghostUnchanged /\ tblUnchanged

\* ---- DBInterface._subscribe_keyspace_notification, called inside the except
\* clause of line 41: what it raises leaves wrapped
SubscribeOk ==
    /\ pc = "subscribe" /\ up
    /\ keyspace_notification_channels' = keyspace_notification_channels \cup {cur.db_name}
    \* the first message of a pubsub is the confirmation of its psubscribe
    /\ msgs' = [msgs EXCEPT ![cur.db_name] = <<"psubscribe">>]
    /\ live' = [live EXCEPT !.pubsubs[cur.db_name] = @ + 1, !.opened = TRUE]
    /\ pc' = "attempt"
    /\ UNCHANGED <<redis_clients, redis_db_map, cur, attempts, result, lastOutcome, ncalls>>
    /\ clockUnchanged /\ envUnchanged /\ ghostUnchanged /\ restUnchanged

SubscribeConnectionError ==
    /\ pc = "subscribe" /\ ~up
    /\ Exit("ConnectionError")
    /\ UNCHANGED <<redis_clients, keyspace_notification_channels, redis_db_map, msgs,
                   cur, attempts, lastOutcome, ncalls>>
    /\ clockUnchanged /\ envUnchanged /\ ghostUnchanged /\ tblUnchanged

\* ---- DBInterface._unavailable_data_handler
InWaitLoop == pc = "wait" /\ now - start < PUB_SUB_MAXIMUM_DATA_WAIT

\* lines 356-361: a queued message is returned at once; a matching one ends the
\* wait after the settling sleep, and wrapped tries f again (line 47)
GetMessage ==
    /\ InWaitLoop /\ up
    /\ msgs[cur.db_name] # <<>>
    /\ LET m == Head(msgs[cur.db_name])
       IN /\ msgs' = [msgs EXCEPT ![cur.db_name] = Tail(@)]
          /\ IF m = Awaited(cur.f)
             THEN /\ now' = now + DATA_RETRIEVAL_WAIT_TIME
                  /\ pc' = "attempt"
             ELSE /\ now' = now
                  /\ pc' = "wait"
    /\ UNCHANGED <<redis_clients, keyspace_notification_channels, redis_db_map,
                   cur, attempts, result, lastOutcome, ncalls, start, waited, slept>>
    /\ envUnchanged /\ ghostUnchanged /\ tblUnchanged

\* line 356: nothing arrives within PUB_SUB_NOTIFICATION_TIMEOUT
GetMessageTimeout ==
    /\ InWaitLoop /\ up
    /\ msgs[cur.db_name] = <<>>
    /\ now' = now + PUB_SUB_NOTIFICATION_TIMEOUT
    /\ waited' = waited + PUB_SUB_NOTIFICATION_TIMEOUT
    /\ UNCHANGED <<redis_clients, keyspace_notification_channels, redis_db_map, msgs, pc,
                   cur, attempts, result, lastOutcome, ncalls, start, slept>>
    /\ envUnchanged /\ ghostUnchanged /\ tblUnchanged

\* line 356: the transport is dead, get_message raises and the error leaves wrapped
GetMessageConnectionError ==
    /\ InWaitLoop /\ ~up
    /\ Exit("ConnectionError")
    /\ UNCHANGED <<redis_clients, keyspace_notification_channels, redis_db_map, msgs,
                   cur, attempts, lastOutcome, ncalls>>
    /\ clockUnchanged /\ envUnchanged /\ ghostUnchanged /\ tblUnchanged

\* What if the timeout re-raised without line 49
WaitExpired_KeepsSubscription ==
    /\ WaitOver
    /\ Exit("UnavailableDataError")
    /\ UNCHANGED <<redis_clients, keyspace_notification_channels, redis_db_map, msgs,
                   cur, attempts, lastOutcome, ncalls>>
    /\ clockUnchanged /\ envUnchanged /\ ghostUnchanged /\ tblUnchanged

\* lines 363-364 and 48-50: the wait ran out: unsubscribe and re-raise
WaitExpired ==
    /\ WaitOver
    /\ UnsubscribeKeyspaceNotification(cur.db_name)
    /\ Exit("UnavailableDataError")
    /\ UNCHANGED <<redis_clients, redis_db_map, cur, attempts, lastOutcome, ncalls>>
    /\ clockUnchanged /\ envUnchanged /\ ghostUnchanged /\ restUnchanged

\* ---- DBInterface._connection_error_handler (lines 366-373)
\* What if _connection_error_handler released the connection only
CehClose_ClientOnly ==
    /\ pc = "ceh_close"
    /\ close_KeepsSubscription(cur.db_name)
    /\ pc' = "ceh_sleep"
    /\ UNCHANGED <<redis_db_map, cur, attempts, result, lastOutcome, ncalls>>
    /\ clockUnchanged /\ envUnchanged /\ ghostUnchanged /\ restUnchanged

\* line 371: self.close(db_name)
CehClose ==
    /\ pc = "ceh_close"
    /\ close(cur.db_name)
    /\ pc' = "ceh_sleep"
    /\ UNCHANGED <<redis_db_map, cur, attempts, result, lastOutcome, ncalls>>
    /\ clockUnchanged /\ envUnchanged /\ ghostUnchanged /\ restUnchanged

\* line 372: time.sleep(CONNECT_RETRY_WAIT_TIME)
CehSleep ==
    /\ pc = "ceh_sleep"
    /\ now' = now + CONNECT_RETRY_WAIT_TIME
    /\ slept' = slept + CONNECT_RETRY_WAIT_TIME
    /\ pc' = "ceh_connect"
    /\ UNCHANGED <<redis_clients, keyspace_notification_channels, redis_db_map, msgs,
                   cur, attempts, result, lastOutcome, ncalls, start, waited>>
    /\ envUnchanged /\ ghostUnchanged /\ tblUnchanged

\* ---- DBInterface.connect / _onetime_connect / _persistent_connect
\* line 373 connects with retry_on=True; an application connect uses its argument
Connecting == pc \in {"connect", "ceh_connect"}
Persistent == pc = "ceh_connect" \/ cur.retry_on

AfterConnect ==
    IF pc = "ceh_connect"
    THEN pc' = "attempt" /\ result' = result
    ELSE Exit("ok")

\* What if _onetime_connect had no test at line 188 and replaced the client
OnetimeConnectKnown_Reconnects ==
    /\ Connecting
    /\ cur.db_name \in redis_clients
    /\ live' = [live EXCEPT !.clients[cur.db_name] = @ + 1]
    /\ AfterConnect
    /\ UNCHANGED <<redis_clients, keyspace_notification_channels, redis_db_map, msgs,
                   cur, attempts, lastOutcome, ncalls>>
    /\ clockUnchanged /\ envUnchanged /\ ghostUnchanged /\ restUnchanged

\* _onetime_connect, line 188 false: the name already has a client
OnetimeConnectKnown ==
    /\ Connecting
    /\ cur.db_name \in redis_clients
    /\ AfterConnect
    /\ UNCHANGED <<redis_clients, keyspace_notification_channels, redis_db_map, msgs,
                   cur, attempts, lastOutcome, ncalls>>
    /\ clockUnchanged /\ envUnchanged /\ ghostUnchanged /\ tblUnchanged

\* _onetime_connect, lines 189-194: config_set reaches the store
OnetimeConnectOk ==
    /\ Connecting
    /\ cur.db_name \notin redis_clients
    /\ up
    /\ redis_db_map' = redis_db_map \cup {cur.db_name}
    /\ redis_clients' = redis_clients \cup {cur.db_name}
    /\ live' = [live EXCEPT !.clients[cur.db_name] = @ + 1]
    /\ AfterConnect
    /\ UNCHANGED <<keyspace_notification_channels, msgs, cur, attempts, lastOutcome, ncalls>>
    /\ clockUnchanged /\ envUnchanged /\ ghostUnchanged /\ restUnchanged

\* What if the client were registered (line 194) before config_set (line 193)
OnetimeConnectError_Registered ==
    /\ Connecting /\ ~Persistent
    /\ cur.db_name \notin redis_clients
    /\ ~up
    /\ redis_db_map' = redis_db_map \cup {cur.db_name}
    /\ redis_clients' = redis_clients \cup {cur.db_name}
    /\ Exit("ConnectionError")
    /\ UNCHANGED <<keyspace_notification_channels, msgs,
                   cur, attempts, lastOutcome, ncalls>>
    /\ clockUnchanged /\ envUnchanged /\ ghostUnchanged /\ tblUnchanged

\* _onetime_connect raises at line 193 and connect(retry_on=False) lets it out
OnetimeConnectError ==
    /\ Connecting /\ ~Persistent
    /\ cur.db_name \notin redis_clients
    /\ ~up
    /\ redis_db_map' = redis_db_map \cup {cur.db_name}
    /\ Exit("ConnectionError")
    /\ UNCHANGED <<redis_clients, keyspace_notification_channels, msgs,
                   cur, attempts, lastOutcome, ncalls>>
    /\ clockUnchanged /\ envUnchanged /\ ghostUnchanged /\ tblUnchanged

\* What if _persistent_connect let the error out after its sleep
PersistentConnectRetry_GivesUp ==
    /\ Connecting /\ Persistent
    /\ cur.db_name \notin redis_clients
    /\ ~up
    /\ slept < MaxRetries * CONNECT_RETRY_WAIT_TIME
    /\ redis_db_map' = redis_db_map \cup {cur.db_name}
    /\ close(cur.db_name)
    /\ now' = now + CONNECT_RETRY_WAIT_TIME
    /\ slept' = slept + CONNECT_RETRY_WAIT_TIME
    /\ Exit("ConnectionError")
    /\ UNCHANGED <<cur, attempts, lastOutcome, ncalls, start, waited>>
    /\ envUnchanged /\ ghostUnchanged /\ restUnchanged

\* _persistent_connect, lines 204-208: close, sleep, try again
PersistentConnectRetry ==
    /\ Connecting /\ Persistent
    /\ cur.db_name \notin redis_clients
    /\ ~up
    /\ slept < MaxRetries * CONNECT_RETRY_WAIT_TIME
    /\ redis_db_map' = redis_db_map \cup {cur.db_name}
    /\ close(cur.db_name)
    /\ now' = now + CONNECT_RETRY_WAIT_TIME
    /\ slept' = slept + CONNECT_RETRY_WAIT_TIME
    /\ UNCHANGED <<pc, cur, attempts, result, lastOutcome, ncalls, start, waited>>
    /\ envUnchanged /\ ghostUnchanged /\ restUnchanged

\* ---- the environment: the transport and the other processes
Fail ==
    /\ up /\ nfail < MaxFailures
    /\ up' = FALSE
    /\ nfail' = nfail + 1
    /\ healthy' = (healthy /\ ~InCall)
    /\ UNCHANGED <<redis_clients, keyspace_notification_channels, redis_db_map, msgs, pc,
                   cur, attempts, result, lastOutcome, ncalls, db, ttl, nevents,
                   everPresent, inTime>>
    /\ clockUnchanged /\ tblUnchanged

Recover ==
    /\ ~up
    /\ up' = TRUE
    /\ UNCHANGED <<redis_clients, keyspace_notification_channels, redis_db_map, msgs, pc,
                   cur, attempts, result, lastOutcome, ncalls, db, ttl, nevents, nfail>>
    /\ clockUnchanged /\ ghostUnchanged /\ tblUnchanged

\* The timeout of H runs out: the store deletes the key and publishes the
\* event `expired`
Expired(n) ==
    /\ n \in ttl
    /\ ttl' = ttl \ {n}
    /\ db' = [db EXCEPT ![n] = {}]
    /\ msgs' = Deliver(n, "expired")
    /\ IF InCall /\ cur.db_name = n /\ cur.f \in ReadOps
       THEN inTime' = FALSE /\ UNCHANGED everPresent
       ELSE UNCHANGED <<everPresent, inTime>>
    /\ UNCHANGED <<redis_clients, keyspace_notification_channels, redis_db_map, pc,
                   cur, attempts, result, lastOutcome, ncalls, up, nevents, nfail, healthy>>
    /\ clockUnchanged /\ tblUnchanged

\* Another process runs hset H f 1, hset H f '', hset H g 1 or del H on
\* database n
OtherCommands == {"hset_f", "hset_f_empty", "hset_g", "del"}

OtherFields(w, fields) ==
    IF w = "hset_f" THEN HsetField(fields, "f", "1")
    ELSE IF w = "hset_f_empty" THEN HsetField(fields, "f", "")
    ELSE IF w = "hset_g" THEN HsetField(fields, "g", "1")
    ELSE {}

OtherEvent(w, fields) ==
    IF w = "del" THEN (IF fields # {} THEN "del" ELSE "none") ELSE "hset"

OtherWrites(n, w) ==
    /\ nevents < MaxEvents
    /\ nevents' = nevents + 1
    /\ db' = [db EXCEPT ![n] = OtherFields(w, @)]
    \* HSET keeps the timeout of the key, DEL removes it with the key
    /\ ttl' = IF w = "del" THEN ttl \ {n} ELSE ttl
    /\ msgs' = Deliver(n, OtherEvent(w, db[n]))
    /\ IF InCall /\ cur.db_name = n /\ cur.f \in ReadOps
       THEN LET was == Present(cur.f, db[n])
                is == Present(cur.f, OtherFields(w, db[n]))
            IN /\ everPresent' = (everPresent \/ is)
               /\ inTime' = IF ~is THEN FALSE ELSE IF was THEN inTime ELSE ~WaitOver
       ELSE UNCHANGED <<everPresent, inTime>>
    /\ UNCHANGED <<redis_clients, keyspace_notification_channels, redis_db_map, pc,
                   cur, attempts, result, lastOutcome, ncalls, up, nfail, healthy>>
    /\ clockUnchanged /\ tblUnchanged

\* =================================================================
\* ConfigDBConnector: strings are sequences of characters, a python dict is the
\* sequence of its (key, value) pairs in insertion order, and a hash of the store
\* is the sequence of its (field, value) pairs in the order HGETALL returns them
\* (insertion order).  A key holding no field does not exist.
\* =================================================================
MaxOps == 3

NULL == <<"N", "U", "L", "L">>
TABLE_NAME_SEPARATOR == <<"|">>
KEY_SEPARATOR == <<"|">>

\* ---- python strings
RECURSIVE join(_, _)
\* sep.join(parts)
join(sep, parts) ==
    IF parts = <<>> THEN <<>>
    ELSE IF Len(parts) = 1 THEN parts[1]
    ELSE parts[1] \o sep \o join(sep, Tail(parts))

RECURSIVE SplitFrom(_, _, _)
\* the parts of s after position i - 1, the part under way being acc
SplitFrom(s, c, acc) ==
    IF s = <<>> THEN <<acc>>
    ELSE IF Head(s) = c THEN <<acc>> \o SplitFrom(Tail(s), c, <<>>)
    ELSE SplitFrom(Tail(s), c, Append(acc, Head(s)))

\* s.split(c) for a one-character separator: "".split(",") is [""]
split(s, c) == SplitFrom(s, c, <<>>)

\* s.split(c, 1): at most two parts
split1(s, c) ==
    IF \E i \in 1..Len(s) : s[i] = c
    THEN LET i == CHOOSE j \in 1..Len(s) : s[j] = c /\ \A h \in 1..(j - 1) : s[h] # c
         IN <<SubSeq(s, 1, i - 1), SubSeq(s, i + 1, Len(s))>>
    ELSE <<s>>

endswith(s, c) == s # <<>> /\ s[Len(s)] = c

startswith(s, prefix) ==
    Len(s) >= Len(prefix) /\ SubSeq(s, 1, Len(prefix)) = prefix

UpperChar(c) ==
    IF c = "t" THEN "T" ELSE IF c = "u" THEN "U" ELSE c

\* s.upper()
upper(s) == [i \in 1..Len(s) |-> UpperChar(s[i])]

\* ---- python values: a str, a list of str, an int
StrV(s) == [t |-> "str", v |-> s]
ListV(l) == [t |-> "list", v |-> l]
IntV(i) == [t |-> "int", v |-> i]

Digit(i) == IF i = 1 THEN "1" ELSE IF i = 2 THEN "2" ELSE "0"

\* str(value) of typed_to_raw line 156
str(value) == IF value.t = "int" THEN <<Digit(value.v)>> ELSE value.v

\* ---- python dicts
DictKeys(d) == {d[i][1] : i \in 1..Len(d)}
DictHas(d, k) == k \in DictKeys(d)
DictGet(d, k) == d[CHOOSE i \in 1..Len(d) : d[i][1] = k][2]
\* d[k] = v: an existing key keeps its place
DictSet(d, k, v) ==
    IF DictHas(d, k)
    THEN [i \in 1..Len(d) |-> IF d[i][1] = k THEN <<k, v>> ELSE d[i]]
    ELSE Append(d, <<k, v>>)
DictDel(d, k) == SelectSeq(d, LAMBDA p : p[1] # k)
\* d1 == d2
DictEq(d1, d2) == {d1[i] : i \in 1..Len(d1)} = {d2[i] : i \in 1..Len(d2)}

None == [isNone |-> TRUE, d |-> <<>>]
Some(d) == [isNone |-> FALSE, d |-> d]

\* ---- the codec
RECURSIVE RawToTypedFrom(_, _)
RawToTypedFrom(raw, typed) ==
    IF raw = <<>> THEN typed
    ELSE LET key == raw[1][1]
             val == raw[1][2]
         IN RawToTypedFrom(Tail(raw),
                IF key = NULL THEN typed
                ELSE IF endswith(key, "@")
                     THEN DictSet(typed, SubSeq(key, 1, Len(key) - 1),
                                  ListV(split(val, ",")))
                     ELSE DictSet(typed, key, StrV(val)))

\* ConfigDBConnector.raw_to_typed (raw_data is never None here: HGETALL of a
\* missing key is the empty dict)
raw_to_typed(raw_data) == RawToTypedFrom(raw_data, <<>>)

RECURSIVE TypedToRawFrom(_, _)
TypedToRawFrom(typed, raw) ==
    IF typed = <<>> THEN raw
    ELSE LET key == typed[1][1]
             value == typed[1][2]
         IN TypedToRawFrom(Tail(typed),
                IF value.t = "list"
                THEN DictSet(raw, Append(key, "@"), join(<<",">>, value.v))
                ELSE DictSet(raw, key, str(value)))

\* ConfigDBConnector.typed_to_raw of a row that is not None
typed_to_raw(typed_data) ==
    IF typed_data = <<>> THEN <<<<NULL, NULL>>>>
    ELSE TypedToRawFrom(typed_data, <<>>)

\* a key is a str or a tuple of str
StrK(s) == [t |-> "str", v |-> s]
TupleK(parts) == [t |-> "tuple", v |-> parts]

\* ConfigDBConnector.serialize_key
serialize_key(key) ==
    IF key.t = "tuple" THEN join(KEY_SEPARATOR, key.v) ELSE key.v

\* What if a stored key were never split back into a tuple
deserialize_key_NoTuple(key) == StrK(key)

\* ConfigDBConnector.deserialize_key
deserialize_key(key) ==
    LET tokens == split(key, KEY_SEPARATOR[1])
    IN IF Len(tokens) > 1 THEN TupleK(tokens) ELSE StrK(key)

\* '{}{}{}'.format(table.upper(), self.TABLE_NAME_SEPARATOR, key)
HashOf(table, key) == upper(table) \o TABLE_NAME_SEPARATOR \o serialize_key(key)

\* ---- the inputs of the table operations
Tables == {<<"t">>, <<"T">>}
Keys == {StrK(<<"k">>), TupleK(<<<<"k">>, <<"j">>>>)}
Rows ==
    { <<>>,
      <<<<(<<"a">>), StrV(<<"1">>)>>>>,
      <<<<(<<"a">>), ListV(<<(<<"x">>), (<<"y">>)>>)>>>>,
      <<<<(<<"a">>), ListV(<<>>)>>>>,
      <<<<(<<"b">>), IntV(2)>>>>,
      <<<<(<<"a">>), StrV(<<"3">>)>>, <<(<<"b">>), StrV(<<"2">>)>>>> }
Datas == {None} \cup {Some(r) : r \in Rows}

StoreKeys == {HashOf(t, k) : t \in Tables, k \in Keys}
EmptyStore == [h \in StoreKeys |-> <<>>]
\* the last call of the writer; bulk: a bulk call was made before or by it
NoOp == [op |-> "none", table |-> <<>>, key |-> StrK(<<>>), data |-> None,
         before |-> EmptyStore, bulk |-> FALSE]

\* ---- the store's commands
exists(st, h) == st[h] # <<>>
hgetall(st, h) == st[h]

RECURSIVE HmsetFrom(_, _)
HmsetFrom(hash, mapping) ==
    IF mapping = <<>> THEN hash
    ELSE HmsetFrom(DictSet(hash, mapping[1][1], mapping[1][2]), Tail(mapping))

hmset(st, h, mapping) == [st EXCEPT ![h] = HmsetFrom(@, mapping)]
hdel(st, h, field) == [st EXCEPT ![h] = DictDel(@, field)]
delete(st, h) == [st EXCEPT ![h] = <<>>]
\* KEYS prefix*
keys(st, prefix) == {h \in DOMAIN st : exists(st, h) /\ startswith(h, prefix)}

\* ---- ConfigDBConnector
\* ConfigDBConnector.get_entry
get_entry(st, table, key) == raw_to_typed(hgetall(st, HashOf(table, key)))

RECURSIVE DeleteStale(_, _, _, _, _)
\* set_entry lines 201-204, for the keys of `original` from position i on
DeleteStale(st, h, original, data, i) ==
    IF i > Len(original) THEN st
    ELSE LET k == original[i][1]
         IN IF DictHas(data, k)
            THEN DeleteStale(st, h, original, data, i + 1)
            ELSE DeleteStale(
                     hdel(st, h, IF original[i][2].t = "list" THEN Append(k, "@") ELSE k),
                     h, original, data, i + 1)

\* What if None were encoded like the empty row instead of deleting the key
set_entry_NoneAsEmpty(st, table, key, data) ==
    LET h == HashOf(table, key)
        d == IF data.isNone THEN <<>> ELSE data.d
        original == get_entry(st, table, StrK(serialize_key(key)))
    IN DeleteStale(hmset(st, h, typed_to_raw(d)), h, original, d, 1)

\* ConfigDBConnector.set_entry
set_entry(st, table, key, data) ==
    LET h == HashOf(table, key)
    IN IF data.isNone THEN delete(st, h)
       ELSE LET original == get_entry(st, table, StrK(serialize_key(key)))
            IN DeleteStale(hmset(st, h, typed_to_raw(data.d)), h, original, data.d, 1)

\* ConfigDBConnector.mod_entry
mod_entry(st, table, key, data) ==
    LET h == HashOf(table, key)
    IN IF data.isNone THEN delete(st, h)
       ELSE hmset(st, h, typed_to_raw(data.d))

\* ConfigDBConnector.get_table: row key -> typed row
get_table(st, table) ==
    LET ks == keys(st, upper(table) \o TABLE_NAME_SEPARATOR)
        row(h) == deserialize_key(split1(h, TABLE_NAME_SEPARATOR[1])[2])
    IN [rk \in {row(h) : h \in ks} |->
           raw_to_typed(hgetall(st, CHOOSE h \in ks : row(h) = rk))]

\* ---- one writer applying table operations
accUnchanged == UNCHANGED <<accVars, ntfVars>>

SetEntry(table, key, data) ==
    /\ nops < MaxOps
    /\ tstore' = set_entry(tstore, table, key, data)
    /\ tlast' = [op |-> "set_entry", table |-> table, key |-> key, data |-> data,
                 before |-> tstore, bulk |-> tlast.bulk]
    /\ nops' = nops + 1
    /\ accUnchanged /\ UNCHANGED cfgVars

ModEntry(table, key, data) ==
    /\ nops < MaxOps
    /\ tstore' = mod_entry(tstore, table, key, data)
    /\ tlast' = [op |-> "mod_entry", table |-> table, key |-> key, data |-> data,
                 before |-> tstore, bulk |-> tlast.bulk]
    /\ nops' = nops + 1
    /\ accUnchanged /\ UNCHANGED cfgVars

\* ---- the bulk calls: the payload names raw keys, raw fields and raw mappings
\* (no typed_to_raw, no table.upper()), its commands are queued in one pipeline
\* and pipe.execute() applies them in order as one transaction
BulkFields == {<<"a">>, <<"b">>}
BulkMappings == {<<<<(<<"a">>), <<"1">>>>>>, <<<<(<<"b">>), <<"2">>>>>>}
\* payloads of one or two items
PayloadsOf(items) == {<<x>> : x \in items} \cup {<<x, y>> : x \in items, y \in items}
SetBulkPayloads == PayloadsOf(StoreKeys \X BulkMappings)
DelBulkPayloads == PayloadsOf(StoreKeys)
HdelBulkPayloads == PayloadsOf(StoreKeys \X BulkFields)

RECURSIVE set_bulk(_, _)
\* ConfigDBConnector.set_bulk: for (k, v) in payload: pipe.hmset(k, v)
set_bulk(st, payload) ==
    IF payload = <<>> THEN st
    ELSE set_bulk(hmset(st, payload[1][1], payload[1][2]), Tail(payload))

RECURSIVE del_bulk(_, _)
\* ConfigDBConnector.del_bulk: for (k) in payload: pipe.delete(k)
del_bulk(st, payload) ==
    IF payload = <<>> THEN st
    ELSE del_bulk(delete(st, payload[1]), Tail(payload))

RECURSIVE hdel_bulk(_, _)
\* ConfigDBConnector.hdel_bulk: for (k, v) in payload: pipe.hdel(k, v)
hdel_bulk(st, payload) ==
    IF payload = <<>> THEN st
    ELSE hdel_bulk(hdel(st, payload[1][1], payload[1][2]), Tail(payload))

\* ConfigDBConnector.getall_bulk: the raw hashes of the payload's keys, in order
getall_bulk(st, payload) == [i \in 1..Len(payload) |-> hgetall(st, payload[i])]

BulkStep(op) ==
    /\ nops < MaxOps
    /\ tlast' = [op |-> op, table |-> <<>>, key |-> StrK(<<>>), data |-> None,
                 before |-> tstore, bulk |-> TRUE]
    /\ nops' = nops + 1
    /\ accUnchanged /\ UNCHANGED cfgVars

SetBulk(payload) ==
    /\ BulkStep("set_bulk")
    /\ tstore' = set_bulk(tstore, payload)

DelBulk(payload) ==
    /\ BulkStep("del_bulk")
    /\ tstore' = del_bulk(tstore, payload)

HdelBulk(payload) ==
    /\ BulkStep("hdel_bulk")
    /\ tstore' = hdel_bulk(tstore, payload)

\* =================================================================
\* The row codec on its own: a row is encoded and the encoding decoded
\* =================================================================
MaxFields == 2

CodecNames == {<<"a">>, <<"b">>, NULL, <<"a", "@">>}
CodecValues ==
    { StrV(<<"1">>), StrV(<<>>), IntV(2),
      ListV(<<>>), ListV(<<(<<"x">>)>>), ListV(<<(<<"x">>), (<<"y">>)>>),
      ListV(<<(<<>>)>>), ListV(<<(<<"x", ",", "y">>)>>) }

\* the dicts of at most n fields, in every insertion order
RECURSIVE RowsUpTo(_)
RowsUpTo(n) ==
    IF n = 0 THEN {<<>>}
    ELSE LET shorter == RowsUpTo(n - 1)
         IN shorter \cup
            { Append(r, <<f, v>>) :
                r \in {x \in shorter : Len(x) = n - 1},
                f \in CodecNames, v \in CodecValues }

CodecRows == {r \in RowsUpTo(MaxFields) : Cardinality(DictKeys(r)) = Len(r)}

NoCodec == [pc |-> "none", row |-> <<>>, raw |-> <<>>, back |-> <<>>]

\* raw = self.typed_to_raw(row)
CodecEncode ==
    /\ codec.pc = "row"
    /\ codec' = [codec EXCEPT !.pc = "raw", !.raw = typed_to_raw(codec.row)]
    /\ UNCHANGED <<accVars, ntfVars, tblVars, cstore, pstore, clast, cops, race>>

\* back = self.raw_to_typed(raw)
CodecDecode ==
    /\ codec.pc = "raw"
    /\ codec' = [codec EXCEPT !.pc = "back", !.back = raw_to_typed(codec.raw)]
    /\ UNCHANGED <<accVars, ntfVars, tblVars, cstore, pstore, clast, cops, race>>

\* =================================================================
\* Whole tables and whole snapshots: ConfigDBConnector (one store command at a
\* time) and ConfigDBPipeConnector (commands queued in a pipeline)
\* =================================================================
MaxConfigOps == 1

INIT_INDICATOR == <<"C", "O", "N", "F", "I", "G", "_", "D", "B", "_",
                    "I", "N", "I", "T", "I", "A", "L", "I", "Z", "E", "D">>

\* ---- the inputs: table names in both letter cases, a table whose name starts
\* with the name of another, scalar and tuple keys
ConfigTables == {<<"t">>, <<"T">>, <<"t", "u">>}
ConfigKeysOf(table) == IF upper(table) = <<"T">> THEN Keys ELSE {StrK(<<"k">>)}
ConfigRows == { <<<<(<<"a">>), StrV(<<"1">>)>>>>, <<<<(<<"b">>), StrV(<<"2">>)>>>> }
\* the rows a snapshot gives under each table name: the two spellings of one
\* table give field a different values
ConfigRowsOf(table) ==
    IF table = <<"T">>
    THEN { <<<<(<<"a">>), StrV(<<"9">>)>>>>, <<<<(<<"b">>), StrV(<<"2">>)>>>> }
    ELSE ConfigRows
ConfigDatas(table) == {None} \cup {Some(r) : r \in ConfigRowsOf(table)}

\* table_data: None, or a dict of one row
TableDatas(table) ==
    {None} \cup {Some(<<<<k, d>>>>) : k \in ConfigKeysOf(table), d \in ConfigDatas(table)}

\* snapshots naming one table
Snapshots1 == UNION {{<<<<t, td>>>> : td \in TableDatas(t)} : t \in ConfigTables}
\* snapshots naming one or two tables, in either order
Snapshots ==
    Snapshots1 \cup
    {s \in {s1 \o s2 : s1 \in Snapshots1, s2 \in Snapshots1} : s[1][1] # s[2][1]}

ConfigStoreKeys == UNION {{HashOf(t, k) : k \in ConfigKeysOf(t)} : t \in ConfigTables}
EmptyConfigStore == [h \in ConfigStoreKeys |-> <<>>]
\* store contents that rows written earlier leave behind
ConfigStores == [ConfigStoreKeys -> {<<>>} \cup {typed_to_raw(r) : r \in ConfigRows}]

NoConfigOp == [op |-> "none", data |-> <<>>, table |-> <<>>,
               cbefore |-> EmptyConfigStore, pbefore |-> EmptyConfigStore,
               cres |-> <<>>, pres |-> <<>>, error |-> "none"]

\* ---- ConfigDBConnector
\* '{}{}*'.format(table.upper(), self.TABLE_NAME_SEPARATOR)
TablePattern(table) == upper(table) \o TABLE_NAME_SEPARATOR

\* for key in keys: client.delete(key)
DeleteKeys(st, ks) == [h \in DOMAIN st |-> IF h \in ks THEN <<>> ELSE st[h]]

\* ConfigDBConnector.delete_table
delete_table(st, table) == DeleteKeys(st, keys(st, TablePattern(table)))

RECURSIVE ModEntries_SetEntry(_, _, _)
\* What if mod_config wrote its rows with set_entry
ModEntries_SetEntry(st, table_name, table_data) ==
    IF table_data = <<>> THEN st
    ELSE ModEntries_SetEntry(set_entry(st, table_name, table_data[1][1], table_data[1][2]),
                             table_name, Tail(table_data))

RECURSIVE ModEntries(_, _, _)
\* mod_config lines 348-349
ModEntries(st, table_name, table_data) ==
    IF table_data = <<>> THEN st
    ELSE ModEntries(mod_entry(st, table_name, table_data[1][1], table_data[1][2]),
                    table_name, Tail(table_data))

RECURSIVE mod_config(_, _)
\* ConfigDBConnector.mod_config
mod_config(st, data) ==
    IF data = <<>> THEN st
    ELSE LET table_name == data[1][1]
             table_data == data[1][2]
         IN mod_config(IF table_data.isNone
                       THEN delete_table(st, table_name)
                       ELSE ModEntries(st, table_name, table_data.d),
                       Tail(data))

\* the keys get_config can split into (table_name, row); the others raise
\* ValueError at the unpacking and are skipped
TableFormatted(h) == Len(split1(h, TABLE_NAME_SEPARATOR[1])) = 2
TableNameOf(h) == split1(h, TABLE_NAME_SEPARATOR[1])[1]
RowOf(h) == deserialize_key(split1(h, TABLE_NAME_SEPARATOR[1])[2])

\* the dict built by data.setdefault(table_name, {})[row] = entry over `ks`
ConfigOf(st, ks) ==
    [tn \in {TableNameOf(h) : h \in ks} |->
        LET hs == {h \in ks : TableNameOf(h) = tn}
        IN [rk \in {RowOf(h) : h \in hs} |->
               raw_to_typed(hgetall(st, CHOOSE h \in hs : RowOf(h) = rk))]]

\* ConfigDBConnector.get_config
get_config(st) == ConfigOf(st, {h \in keys(st, <<>>) : TableFormatted(h)})

\* ---- ConfigDBPipeConnector
\* the keys a complete SCAN iteration with match=pattern returns, read from the
\* store at the moment of the scan
scan(st, prefix) == keys(st, prefix)

\* __delete_table: the DELETEs of the scanned keys are queued, not run
PipeDeleteTable(st, pipe, table) ==
    Append(pipe, [c |-> "delete", ks |-> scan(st, TablePattern(table)), m |-> <<>>])

\* __mod_entry: one DELETE or one HMSET is queued
PipeModEntry(pipe, table, key, data) ==
    IF data.isNone
    THEN Append(pipe, [c |-> "delete", ks |-> {HashOf(table, key)}, m |-> <<>>])
    ELSE Append(pipe, [c |-> "hmset", ks |-> {HashOf(table, key)},
                       m |-> typed_to_raw(data.d)])

RECURSIVE PipeModEntries(_, _, _)
PipeModEntries(pipe, table_name, table_data) ==
    IF table_data = <<>> THEN pipe
    ELSE PipeModEntries(PipeModEntry(pipe, table_name, table_data[1][1], table_data[1][2]),
                        table_name, Tail(table_data))

RECURSIVE PipeQueue(_, _, _)
\* ConfigDBPipeConnector.mod_config lines 444-450: st is the store the scans read
PipeQueue(st, data, pipe) ==
    IF data = <<>> THEN pipe
    ELSE LET table_name == data[1][1]
             table_data == data[1][2]
         IN PipeQueue(st, Tail(data),
                      IF table_data.isNone
                      THEN PipeDeleteTable(st, pipe, table_name)
                      ELSE PipeModEntries(pipe, table_name, table_data.d))

RECURSIVE PipeExecute(_, _)
\* pipe.execute(): the queued commands run in the order they were queued
PipeExecute(st, pipe) ==
    IF pipe = <<>> THEN st
    ELSE LET cmd == pipe[1]
         IN PipeExecute(IF cmd.c = "delete" THEN DeleteKeys(st, cmd.ks)
                        ELSE hmset(st, CHOOSE h \in cmd.ks : TRUE, cmd.m),
                        Tail(pipe))

\* ConfigDBPipeConnector.mod_config
pipe_mod_config(st, data) == PipeExecute(st, PipeQueue(st, data, <<>>))

\* ConfigDBPipeConnector.get_config: every scanned key but INIT_INDICATOR is read
\* and split
pipe_get_config(st) == ConfigOf(st, {h \in scan(st, <<>>) : h # INIT_INDICATOR})

\* ---- the two connectors are given the same calls
ConfigStep(op, data, table) ==
    /\ cops < MaxConfigOps
    /\ cops' = cops + 1
    /\ clast' = [op |-> op, data |-> data, table |-> table,
                 cbefore |-> cstore, pbefore |-> pstore,
                 cres |-> <<>>, pres |-> <<>>, error |-> "none"]
    /\ UNCHANGED <<accVars, ntfVars, tblVars, codec, race>>

ModConfig(data) ==
    /\ ConfigStep("mod_config", data, <<>>)
    /\ cstore' = mod_config(cstore, data)
    /\ pstore' = pipe_mod_config(pstore, data)

GetConfig ==
    /\ cops < MaxConfigOps
    /\ cops' = cops + 1
    /\ clast' = [op |-> "get_config", data |-> <<>>, table |-> <<>>,
                 cbefore |-> cstore, pbefore |-> pstore,
                 cres |-> get_config(cstore), pres |-> pipe_get_config(pstore),
                 error |-> "none"]
    /\ UNCHANGED <<accVars, ntfVars, tblVars, codec, race, cstore, pstore>>

\* delete_table is the same method in both connectors
DeleteTable(table) ==
    /\ ConfigStep("delete_table", <<>>, table)
    /\ cstore' = delete_table(cstore, table)
    /\ pstore' = delete_table(pstore, table)

\* the bulk calls are the same methods in both connectors
ConfigSetBulk(payload) ==
    /\ ConfigStep("set_bulk", <<>>, <<>>)
    /\ cstore' = set_bulk(cstore, payload)
    /\ pstore' = set_bulk(pstore, payload)

ConfigDelBulk(payload) ==
    /\ ConfigStep("del_bulk", <<>>, <<>>)
    /\ cstore' = del_bulk(cstore, payload)
    /\ pstore' = del_bulk(pstore, payload)

ConfigHdelBulk(payload) ==
    /\ ConfigStep("hdel_bulk", <<>>, <<>>)
    /\ cstore' = hdel_bulk(cstore, payload)
    /\ pstore' = hdel_bulk(pstore, payload)

\* ConfigDBPipeConnector.mod_config(data, table_delete=table): the method takes
\* no such argument, python raises TypeError before its body runs
PipeModConfigTableDelete(data, table) ==
    /\ cops < MaxConfigOps
    /\ cops' = cops + 1
    /\ clast' = [op |-> "mod_config_table_delete", data |-> data, table |-> table,
                 cbefore |-> cstore, pbefore |-> pstore,
                 cres |-> <<>>, pres |-> <<>>, error |-> "TypeError"]
    /\ UNCHANGED <<accVars, ntfVars, tblVars, codec, race, cstore, pstore>>

\* =================================================================
\* Two processes writing the same row: every store command of set_entry and
\* mod_entry is a step of its own, and the steps of the two writers interleave
\* =================================================================
RaceTable == <<"t">>
RaceKey == StrK(<<"k">>)
RaceHash == HashOf(RaceTable, RaceKey)
RaceRows ==
    { <<>>,
      <<<<(<<"a">>), StrV(<<"1">>)>>>>,
      <<<<(<<"b">>), StrV(<<"2">>)>>>>,
      <<<<(<<"a">>), StrV(<<"9">>)>>, <<(<<"c">>), StrV(<<"3">>)>>>> }
RaceDatas == {None} \cup {Some(r) : r \in RaceRows}
Writers == {1, 2}

NoWriter == [op |-> "none", data |-> None, pc |-> "done", original |-> <<>>,
             todo |-> <<>>, deleted |-> {}]
\* mixed: some store command ran between the commands of another writer's call
NoRace == [hash |-> <<>>, init |-> <<>>, w |-> <<NoWriter, NoWriter>>, mixed |-> FALSE]
NewWriter(op, data) == [op |-> op, data |-> data, pc |-> "start", original |-> <<>>,
                        todo |-> <<>>, deleted |-> {}]

\* What if set_entry deleted every field the row had when it was read
StaleFields_All(original, data) ==
    [i \in 1..Len(original) |->
        IF original[i][2].t = "list" THEN Append(original[i][1], "@") ELSE original[i][1]]

\* the raw fields set_entry deletes at lines 201-204, in the order it deletes them
StaleFields(original, data) ==
    LET stale == SelectSeq(original, LAMBDA p : ~DictHas(data, p[1]))
    IN [i \in 1..Len(stale) |->
           IF stale[i][2].t = "list" THEN Append(stale[i][1], "@") ELSE stale[i][1]]

RaceStep(i, w, hash) ==
    /\ race' = [race EXCEPT !.w[i] = w, !.hash = hash,
                            !.mixed = @ \/ race.w[3 - i].pc \notin {"start", "done"}]
    /\ UNCHANGED <<accVars, ntfVars, tblVars, codec, cstore, pstore, clast, cops>>

\* set_entry line 197 / mod_entry line 255: client.delete(_hash)
RaceDelete(i) ==
    LET w == race.w[i]
    IN /\ w.pc = "start" /\ w.data.isNone
       /\ RaceStep(i, [w EXCEPT !.pc = "done"], <<>>)

\* mod_entry line 257: client.hmset(_hash, self.typed_to_raw(data))
RaceModEntry(i) ==
    LET w == race.w[i]
    IN /\ w.pc = "start" /\ w.op = "mod_entry" /\ ~w.data.isNone
       /\ RaceStep(i, [w EXCEPT !.pc = "done"],
                   HmsetFrom(race.hash, typed_to_raw(w.data.d)))

\* set_entry line 199: original = self.get_entry(table, key)
RaceRead(i) ==
    LET w == race.w[i]
    IN /\ w.pc = "start" /\ w.op = "set_entry" /\ ~w.data.isNone
       /\ RaceStep(i, [w EXCEPT !.pc = "write", !.original = raw_to_typed(race.hash)],
                   race.hash)

\* set_entry lines 200-201: client.hmset, then the list of stale fields
RaceWrite(i) ==
    LET w == race.w[i]
        todo == StaleFields(w.original, w.data.d)
    IN /\ w.pc = "write"
       /\ RaceStep(i, [w EXCEPT !.pc = IF todo = <<>> THEN "done" ELSE "stale",
                                !.todo = todo],
                   HmsetFrom(race.hash, typed_to_raw(w.data.d)))

\* set_entry line 204: one client.hdel
RaceHdel(i) ==
    LET w == race.w[i]
    IN /\ w.pc = "stale"
       /\ RaceStep(i, [w EXCEPT !.pc = IF Len(w.todo) = 1 THEN "done" ELSE "stale",
                                !.todo = Tail(w.todo),
                                !.deleted = @ \cup {Head(w.todo)}],
                   DictDel(race.hash, Head(w.todo)))

\* =================================================================
\* ConfigDBConnector.listen: the dispatch loop over the keyspace events of the
\* database, other processes writing rows while it runs
\* =================================================================
MaxListenEvents == 2

\* "__keyspace@{}__:".format(dbid), the database id of CONFIG_DB being 4
KeyspacePrefix == <<"_", "_", "k", "e", "y", "s", "p", "a", "c", "e", "@", "4",
                    "_", "_", ":">>
\* the channel of the keyspace event of a key
KeyspaceChannel(h) == KeyspacePrefix \o h

\* the keys other processes write: rows of two tables under scalar and tuple
\* keys, and a key that is not table formatted
ListenKeys == ConfigStoreKeys \cup {<<"X">>}
\* the table names handlers are registered under
ListenTables == {<<"T">>, <<"t">>, <<"T", "U">>}
ListenRaws == {typed_to_raw(r) : r \in ConfigRows}

\* the store when listen is called: empty, or every key holding a row
ListenStores ==
    { [h \in ListenKeys |-> <<>>],
      [h \in ListenKeys |-> typed_to_raw(<<<<(<<"a">>), StrV(<<"1">>)>>>>)] }

\* a dispatch: the item taken, the handlers at the test of line 119, the hash
\* read at line 121, the handler calls made; `steady` while no other thread
\* registered or removed the handler of the item's table during the dispatch
NoDispatch == [type |-> "none", key |-> <<>>, handlers |-> {}, raw |-> <<>>,
               calls |-> <<>>, read |-> FALSE, steady |-> TRUE, error |-> "none"]
NoListen == [pc |-> "none", handlers |-> {}, store |-> [h \in ListenKeys |-> <<>>],
             queue |-> <<>>, nev |-> 0, last |-> NoDispatch]

listenUnchanged == UNCHANGED <<accVars, tblVars, cfgVars, scn, wfi>>

\* listen is between the test of line 119 and the handler call of line 107
InDispatch == lsn.pc \in {"read", "fire", "call"}
\* the table of the item being dispatched
DispatchTable == split1(lsn.last.key, TABLE_NAME_SEPARATOR[1])[1]
\* another thread changes the handler of `table` while listen dispatches an
\* item of that table
Disturbs(table) == InDispatch /\ table = DispatchTable

\* ConfigDBConnector.subscribe, called by any thread
subscribe(table) ==
    /\ lsn.pc # "none" /\ table \notin lsn.handlers
    /\ lsn' = [lsn EXCEPT !.handlers = @ \cup {table},
                          !.last.steady = @ /\ ~Disturbs(table)]
    /\ listenUnchanged

\* ConfigDBConnector.unsubscribe, called by any thread
unsubscribe(table) ==
    /\ lsn.pc # "none" /\ table \in lsn.handlers
    /\ lsn' = [lsn EXCEPT !.handlers = @ \ {table},
                          !.last.steady = @ /\ ~Disturbs(table)]
    /\ listenUnchanged

\* __fire line 107: the call handler(table, key, data)
HandlerCall(table, key, data) == [table |-> table, key |-> key, data |-> data]

\* listen lines 112-113: the pubsub is created and subscribed; the first item
\* it yields is the confirmation of the psubscribe
ListenStart ==
    /\ lsn.pc = "start"
    /\ lsn' = [lsn EXCEPT !.pc = "loop",
                          !.queue = <<[type |-> "psubscribe", channel |-> <<>>]>>]
    /\ listenUnchanged

\* listen lines 114-119 and 123-124: one item of self.pubsub.listen() up to the
\* test of the handlers
ListenItem ==
    /\ lsn.pc = "loop" /\ lsn.queue # <<>>
    /\ LET item == Head(lsn.queue)
           key == IF item.type = "pmessage" THEN split1(item.channel, ":")[2] ELSE <<>>
           parts == split1(key, TABLE_NAME_SEPARATOR[1])
           seen == [NoDispatch EXCEPT !.type = item.type, !.key = key,
                                      !.handlers = lsn.handlers]
           \* line 118 raises ValueError for a key with no separator, line 123
           \* passes
           reads == item.type = "pmessage" /\ Len(parts) = 2
                       /\ parts[1] \in lsn.handlers
       IN lsn' = [lsn EXCEPT
              !.queue = Tail(@),
              !.last = seen,
              !.pc = IF reads THEN "read" ELSE "loop"]
    /\ listenUnchanged

\* listen lines 120-121: HGETALL of the key, decoded
ListenRead ==
    /\ lsn.pc = "read"
    /\ lsn' = [lsn EXCEPT !.pc = "fire",
                          !.last.read = TRUE,
                          !.last.raw = hgetall(lsn.store, lsn.last.key)]
    /\ listenUnchanged

\* __fire line 105: the handlers are tested again
ListenFireTest ==
    /\ lsn.pc = "fire"
    /\ lsn' = [lsn EXCEPT !.pc = IF DispatchTable \in lsn.handlers THEN "call" ELSE "loop"]
    /\ listenUnchanged

\* __fire lines 106-107: the handler is looked up and called with the row text
\* as listen split it off; a handler removed since line 105 makes the lookup
\* raise KeyError, which leaves listen
ListenFireCall ==
    /\ lsn.pc = "call"
    /\ LET row == split1(lsn.last.key, TABLE_NAME_SEPARATOR[1])[2]
       IN lsn' =
            IF DispatchTable \in lsn.handlers
            THEN [lsn EXCEPT
                    !.pc = "loop",
                    !.last.calls = <<HandlerCall(DispatchTable, StrK(row),
                                                 raw_to_typed(lsn.last.raw))>>]
            ELSE [lsn EXCEPT !.pc = "raised", !.last.error = "KeyError"]
    /\ listenUnchanged

\* another process writes a row (HMSET) or deletes a key (DEL); the store
\* publishes the keyspace event of a change to the pubsub of line 112, which
\* stays subscribed after a KeyError has left listen
ListenOtherWrites(h, raw) ==
    /\ lsn.pc # "none" /\ lsn.nev < MaxListenEvents
    /\ LET new == IF raw = <<>> THEN <<>> ELSE HmsetFrom(lsn.store[h], raw)
           changed == raw # <<>> \/ lsn.store[h] # <<>>
       IN lsn' = [lsn EXCEPT
              !.nev = @ + 1,
              !.store[h] = new,
              !.queue = IF lsn.pc \in {"loop", "read", "fire", "call", "raised"} /\ changed
                        THEN Append(@, [type |-> "pmessage",
                                        channel |-> KeyspaceChannel(h)])
                        ELSE @]
    /\ listenUnchanged

\* =================================================================
\* The cursor enumeration of ConfigDBPipeConnector, one SCAN or one pipeline
\* per step, next to get_config / get_table of ConfigDBConnector, on a store that
\* also holds keys that are not table formatted and that other processes write
\* =================================================================
MaxScans == 2
MaxScanEvents == 1
MaxScanOps == 2

\* a row of table T, a row of table TU, a hash under a key with no separator,
\* and the init indicator
ScanKeys == {HashOf(<<"t">>, StrK(<<"k">>)), HashOf(<<"t", "u">>, StrK(<<"k">>)),
             <<"X">>, INIT_INDICATOR}
ScanTables == {<<"t">>, <<"t", "u">>}
\* what a key holds when present; the indicator is a string key, whose value no
\* command of the connectors reads
ScanValue(h) ==
    IF h = INIT_INDICATOR THEN <<<<(<<>>), (<<"1">>)>>>>
    ELSE typed_to_raw(<<<<(<<"a">>), StrV(<<"1">>)>>>>)
ScanStores ==
    {[h \in ScanKeys |-> IF h \in present THEN ScanValue(h) ELSE <<>>] :
        present \in SUBSET ScanKeys}

NoScanOp == [op |-> "none", table |-> <<>>, error |-> "none", quiet |-> TRUE,
             before |-> [h \in ScanKeys |-> <<>>],
             config |-> [tn \in {} |-> <<>>], rows |-> [rk \in {} |-> <<>>]]

scanUnchanged == UNCHANGED <<accVars, tblVars, cfgVars, lsn, wfi>>

\* an operation begins on the store as it is
ScanBegin(op, table) ==
    [scn EXCEPT !.nops = @ + 1,
                !.last = [NoScanOp EXCEPT !.op = op, !.table = table,
                                          !.before = scn.store]]

\* the state the loop over the answer of KEYS starts from
StartRows(op, table, pattern) ==
    [ScanBegin(op, table) EXCEPT
        !.pc = "rows", !.pattern = pattern,
        !.todo = keys(scn.store, pattern),
        !.stable = keys(scn.store, pattern),
        !.got = {}, !.read = [h \in ScanKeys |-> <<>>]]

\* ConfigDBConnector.get_config lines 361-363: KEYS *
ScanGetConfig ==
    /\ scn.pc = "idle" /\ scn.nops < MaxScanOps
    /\ scn' = StartRows("get_config", <<>>, <<>>)
    /\ scanUnchanged

\* get_config lines 364-371, one key of the answer: a key with no separator
\* raises ValueError at line 366 before it is read and is passed over; the
\* HGETALL of any other key is decoded and kept, {} for a key that is gone
ScanGetConfigRow(h) ==
    /\ scn.pc = "rows" /\ scn.last.op = "get_config"
    /\ h \in scn.todo
    /\ scn' = IF TableFormatted(h)
              THEN [scn EXCEPT !.todo = @ \ {h}, !.got = @ \cup {h},
                               !.read[h] = hgetall(scn.store, h)]
              ELSE [scn EXCEPT !.todo = @ \ {h}]
    /\ scanUnchanged

\* ConfigDBConnector.get_table lines 307-310, which ConfigDBPipeConnector
\* inherits: KEYS TABLE|*
ScanGetTable(table) ==
    /\ scn.pc = "idle" /\ scn.nops < MaxScanOps
    /\ scn' = StartRows("get_table", table, TablePattern(table))
    /\ scanUnchanged

\* get_table lines 311-317, one key of the answer: HGETALL, then the split of
\* the key, which holds the separator of the pattern
ScanGetTableRow(h) ==
    /\ scn.pc = "rows" /\ scn.last.op = "get_table"
    /\ h \in scn.todo
    /\ scn' = [scn EXCEPT !.todo = @ \ {h}, !.got = @ \cup {h},
                          !.read[h] = hgetall(scn.store, h)]
    /\ scanUnchanged

\* the dict built by data[deserialize_key(row)] = entry over `ks`
TableOf(st, ks) ==
    [rk \in {RowOf(h) : h \in ks} |->
        raw_to_typed(hgetall(st, CHOOSE h \in ks : RowOf(h) = rk))]

\* get_config line 372, get_table line 319: the loop is over, return data
ScanRowsReturn ==
    /\ scn.pc = "rows" /\ scn.todo = {}
    /\ scn' = [scn EXCEPT
                  !.pc = "done",
                  !.last.config = IF scn.last.op = "get_config"
                                  THEN ConfigOf(scn.read, scn.got) ELSE @,
                  !.last.rows = IF scn.last.op = "get_table"
                                THEN TableOf(scn.read, scn.got) ELSE @]
    /\ scanUnchanged

\* the state a cursor loop starts from: the first scan is given cursor 0
StartCursor(op, table, pattern) ==
    [ScanBegin(op, table) EXCEPT
        !.pc = "scan", !.cur = 0, !.nscans = 0, !.pattern = pattern,
        !.passed = <<>>, !.returned = <<>>, !.seen = {},
        !.stable = keys(scn.store, pattern),
        !.got = {}, !.read = [h \in ScanKeys |-> <<>>], !.queued = {}]

\* ConfigDBPipeConnector.get_config lines 488-492
PipeGetConfigStart ==
    /\ scn.pc = "idle" /\ scn.nops < MaxScanOps
    /\ scn' = StartCursor("pipe_get_config", <<>>, <<>>)
    /\ scanUnchanged

\* ConfigDBPipeConnector.mod_config({table: None}) lines 442-447 and
\* __delete_table lines 408-409
PipeDeleteTableStart(table) ==
    /\ scn.pc = "idle" /\ scn.nops < MaxScanOps
    /\ scn' = StartCursor("pipe_mod_config", table, TablePattern(table))
    /\ scanUnchanged

\* what one SCAN may answer: some of the keys that match and are present, keys
\* it returned before included, and the next cursor; a cursor of 0 only when
\* every key present since the enumeration began has been returned, a nonzero
\* cursor only while the iteration is not MaxScans scans long
ScanAnswers(batch, next) ==
    /\ batch \subseteq keys(scn.store, scn.pattern)
    /\ next \in {0, scn.nscans + 1}
    /\ next = 0 => scn.stable \subseteq (scn.seen \cup batch)
    /\ next # 0 => scn.nscans < MaxScans

\* `while cur != 0` of lines 410 and 493
LoopsAgain(next) == next # 0

\* the cursor loop after a scan was answered
Scanned(batch, next) ==
    [scn EXCEPT !.cur = next, !.nscans = @ + 1,
                !.passed = Append(@, scn.cur), !.returned = Append(@, next),
                !.seen = @ \cup batch]

\* __get_config lines 464-467, called with cursor scn.cur: the SCAN is answered
\* and the HGETALLs of its keys but the init indicator are queued
PipeGetConfigScan(batch, next) ==
    /\ scn.pc = "scan" /\ scn.last.op = "pipe_get_config"
    /\ ScanAnswers(batch, next)
    /\ scn' = [Scanned(batch, next) EXCEPT
                  !.pc = "reads",
                  !.pending = {h \in batch : h # INIT_INDICATOR}]
    /\ scanUnchanged

\* __get_config lines 468-476: pipe.execute() runs the queued HGETALLs in one
\* transaction, {} for a key that is gone; then the keys are split
PipeGetConfigExecute ==
    /\ scn.pc = "reads"
    /\ LET ks == scn.pending
           read == [h \in ScanKeys |->
                       IF h \in ks THEN hgetall(scn.store, h) ELSE scn.read[h]]
           got == scn.got \cup ks
           after == [scn EXCEPT !.got = got, !.read = read, !.pending = {}]
       IN scn' =
            \* line 471: the unpacking of a key with no separator raises ValueError
            IF \E h \in ks : ~TableFormatted(h)
            THEN [after EXCEPT !.pc = "done", !.last.error = "ValueError"]
            ELSE [after EXCEPT
                    !.pc = IF LoopsAgain(scn.cur) THEN "scan" ELSE "done",
                    !.last.config = IF LoopsAgain(scn.cur) THEN @
                                    ELSE ConfigOf(read, got)]
    /\ scanUnchanged

\* __delete_entries lines 394-398, called with cursor scn.cur
PipeDeleteEntries(batch, next) ==
    /\ scn.pc = "scan" /\ scn.last.op = "pipe_mod_config"
    /\ ScanAnswers(batch, next)
    /\ scn' = [Scanned(batch, next) EXCEPT
                  !.queued = @ \cup batch,
                  !.pc = IF LoopsAgain(next) THEN "scan" ELSE "execute"]
    /\ scanUnchanged

\* mod_config line 451: pipe.execute() runs the queued DELETEs
PipeExecuteDeletes ==
    /\ scn.pc = "execute"
    /\ scn' = [scn EXCEPT !.pc = "done", !.store = DeleteKeys(@, scn.queued)]
    /\ scanUnchanged

\* the caller goes on to its next operation
ScanReturn ==
    /\ scn.pc = "done"
    /\ scn' = [scn EXCEPT !.pc = "idle"]
    /\ scanUnchanged

\* another process creates or deletes a key
ScanOtherWrites(h) ==
    /\ scn.pc # "none" /\ scn.nev < MaxScanEvents
    /\ scn' = [scn EXCEPT
                  !.nev = @ + 1,
                  !.store[h] = IF @ = <<>> THEN ScanValue(h) ELSE <<>>,
                  !.stable = @ \ {h},
                  !.last.quiet = @ /\ scn.pc = "idle"]
    /\ scanUnchanged

NoScan == [pc |-> "none", store |-> [h \in ScanKeys |-> <<>>], last |-> NoScanOp,
           cur |-> 0, nscans |-> 0, pattern |-> <<>>, passed |-> <<>>,
           returned |-> <<>>, seen |-> {}, stable |-> {}, got |-> {},
           read |-> [h \in ScanKeys |-> <<>>], queued |-> {}, nev |-> 0, nops |-> 0,
           todo |-> {}, pending |-> {}]

\* =================================================================
\* ConfigDBConnector.connect(wait_for_init): the wait for the init indicator,
\* one store command or one pubsub item per step, while other processes set
\* and delete the indicator
\* =================================================================
MaxInitEvents == 3

\* the indicator key: <<>> when absent (GET answers None), <<text>> when it
\* holds a string; other processes SET it to "1" or to "", or DEL it
InitValues == {<<>>, <<(<<>>)>>, <<(<<"1">>)>>}

\* `if not initialized` / `if initialized` of lines 63 and 71
Initialized(v) == v # <<>> /\ v[1] # <<>>

NoInitWait == [pc |-> "none", wait |-> FALSE, ind |-> <<>>, initialized |-> <<>>,
               subscribed |-> FALSE, queue |-> <<>>, nev |-> 0, missed |-> FALSE]

initUnchanged == UNCHANGED <<accVars, tblVars, cfgVars, lsn, scn>>

\* connect / db_connect lines 76-84, up to the call of __wait_for_db_init
DbConnect(wait) ==
    /\ wfi.pc = "call"
    /\ wfi' = [wfi EXCEPT !.wait = wait, !.pc = IF wait THEN "get" ELSE "done"]
    /\ initUnchanged

\* __wait_for_db_init lines 60-63: the first GET of the indicator
WaitFirstGet ==
    /\ wfi.pc = "get"
    /\ wfi' = [wfi EXCEPT !.initialized = wfi.ind,
                          !.pc = IF Initialized(wfi.ind) THEN "done" ELSE "subscribe"]
    /\ initUnchanged

\* lines 64-65: psubscribe to the keyspace channel of the indicator; the first
\* item the pubsub yields is the confirmation of the psubscribe
WaitSubscribe ==
    /\ wfi.pc = "subscribe"
    /\ wfi' = [wfi EXCEPT !.subscribed = TRUE, !.pc = "listen",
                          !.queue = Append(@, [type |-> "psubscribe",
                                               channel |-> <<>>])]
    /\ initUnchanged

\* lines 66-69: one item of pubsub.listen(), which blocks while none is queued
WaitItem ==
    /\ wfi.pc = "listen" /\ wfi.queue # <<>>
    /\ LET item == Head(wfi.queue)
           key == IF item.type = "pmessage" THEN split1(item.channel, ":")[2] ELSE <<>>
           reads == item.type = "pmessage" /\ key = INIT_INDICATOR
       IN wfi' = [wfi EXCEPT
              !.queue = Tail(@),
              !.pc = IF reads THEN "reget" ELSE @]
    /\ initUnchanged

\* lines 70-72: the GET of the indicator after an event on it
WaitGet ==
    /\ wfi.pc = "reget"
    /\ wfi' = [wfi EXCEPT !.initialized = wfi.ind,
                          !.pc = IF Initialized(wfi.ind) THEN "unsubscribe" ELSE "listen"]
    /\ initUnchanged

\* line 73: punsubscribe
WaitUnsubscribe ==
    /\ wfi.pc = "unsubscribe"
    /\ wfi' = [wfi EXCEPT !.subscribed = FALSE, !.pc = "done"]
    /\ initUnchanged

\* another process SETs the indicator (v holds the text) or DELetes it
\* (v = <<>>); the store publishes the keyspace event of a change to the pubsub
\* that is subscribed at that moment.  `missed` remembers that the latest
\* change fell between the first GET and the psubscribe.
InitOtherWrites(v) ==
    /\ wfi.pc # "none" /\ wfi.nev < MaxInitEvents
    /\ LET changed == v # <<>> \/ wfi.ind # <<>>
       IN wfi' = [wfi EXCEPT
              !.nev = @ + 1,
              !.ind = v,
              !.queue = IF changed /\ wfi.subscribed
                        THEN Append(@, [type |-> "pmessage",
                                        channel |-> KeyspaceChannel(INIT_INDICATOR)])
                        ELSE @,
              !.missed = IF ~changed THEN @
                         ELSE IF wfi.pc = "subscribe" THEN TRUE
                         ELSE IF wfi.subscribed THEN FALSE
                         ELSE @]
    /\ initUnchanged

ntfIdle ==
    /\ lsn = NoListen
    /\ scn = NoScan
    /\ wfi = NoInitWait

\* the parts of the state that Spec and SpecTable leave alone
cfgIdle ==
    /\ ntfIdle
    /\ codec = NoCodec
    /\ cstore = EmptyConfigStore /\ pstore = EmptyConfigStore
    /\ clast = NoConfigOp /\ cops = 0
    /\ race = NoRace

\* ---- the specification of the client process
Init ==
    /\ redis_clients = {}
    /\ keyspace_notification_channels = {}
    /\ redis_db_map = {}
    /\ msgs = [n \in DbNames |-> <<>>]
    /\ live = LiveOf(DOMAIN msgs, redis_clients, keyspace_notification_channels)
    /\ pc = "idle"
    /\ cur = NoCall
    /\ attempts = 0 /\ start = 0 /\ now = 0 /\ waited = 0 /\ slept = 0
    /\ result = "none" /\ lastOutcome = "none"
    /\ up \in BOOLEAN
    /\ db \in [DbNames -> Hashes]
    /\ ttl = {}
    /\ everPresent = FALSE /\ healthy = TRUE /\ inTime = FALSE
    /\ ncalls = 0 /\ nevents = 0 /\ nfail = 0
    /\ tstore = EmptyStore
    /\ tlast = NoOp
    /\ nops = 0
    /\ cfgIdle

Next ==
    \/ \E n \in DbNames, r \in BOOLEAN : StartConnect(n, r)
    \/ \E n \in DbNames : CallClose(n)
    \/ \E f \in BlockableOps, n \in DbNames, b \in BOOLEAN, val \in FieldValues :
          StartCall(f, n, b, val)
    \/ \E n \in DbNames : GetRedisClient(n)
    \/ \E n \in DbNames, t \in ExpireTimeouts : Expire(n, t)
    \/ \E n \in DbNames, matches \in BOOLEAN, m \in PublishMessages : Publish(n, matches, m)
    \/ \E n \in DbNames : Exists(n)
    \/ Return
    \/ WrappedReturn
    \/ DeleteAllKeys
    \/ WrappedUnavailableNonBlocking
    \/ WrappedUnavailableWait
    \/ WrappedUnavailableSubscribe
    \/ WrappedResponseError
    \/ WrappedRedisError
    \/ WrappedMissingClient
    \/ SubscribeOk
    \/ SubscribeConnectionError
    \/ GetMessage
    \/ GetMessageTimeout
    \/ GetMessageConnectionError
    \/ WaitExpired
    \/ CehClose
    \/ CehSleep
    \/ OnetimeConnectKnown
    \/ OnetimeConnectOk
    \/ OnetimeConnectError
    \/ PersistentConnectRetry
    \/ Fail
    \/ Recover
    \/ \E n \in DbNames, w \in OtherCommands : OtherWrites(n, w)
    \/ \E n \in DbNames : Expired(n)

Spec == Init /\ [][Next]_vars

\* ---- the specification of the table store under a single writer
InitTable ==
    /\ redis_clients = {"CONFIG_DB"}
    /\ keyspace_notification_channels = {}
    /\ redis_db_map = {"CONFIG_DB"}
    /\ msgs = [n \in DbNames |-> <<>>]
    /\ live = LiveOf(DOMAIN msgs, redis_clients, keyspace_notification_channels)
    /\ pc = "idle"
    /\ cur = NoCall
    /\ attempts = 0 /\ start = 0 /\ now = 0 /\ waited = 0 /\ slept = 0
    /\ result = "none" /\ lastOutcome = "none"
    /\ up = TRUE
    /\ db = [n \in DbNames |-> {}]
    /\ ttl = {}
    /\ everPresent = FALSE /\ healthy = TRUE /\ inTime = FALSE
    /\ ncalls = 0 /\ nevents = 0 /\ nfail = 0
    /\ tstore = EmptyStore
    /\ tlast = NoOp
    /\ nops = 0
    /\ cfgIdle

NextTable ==
    \/ \E t \in Tables, k \in Keys, d \in Datas : SetEntry(t, k, d)
    \/ \E t \in Tables, k \in Keys, d \in Datas : ModEntry(t, k, d)
    \/ \E payload \in SetBulkPayloads : SetBulk(payload)
    \/ \E payload \in DelBulkPayloads : DelBulk(payload)
    \/ \E payload \in HdelBulkPayloads : HdelBulk(payload)

SpecTable == InitTable /\ [][NextTable]_vars

\* ---- the single writer also writing snapshots: mod_config of either
\* connector on the store of SpecTable
\* snapshots naming one table: None (delete the table) or one row, the empty
\* row and None (delete the row) included
SentinelSnapshots ==
    {<<<<t, td>>>> :
        t \in Tables,
        td \in {None} \cup {Some(<<<<k, d>>>>) : k \in Keys, d \in Datas}}

\* ConfigDBConnector.mod_config
ModConfigTable(data) ==
    /\ nops < MaxOps
    /\ tstore' = mod_config(tstore, data)
    /\ tlast' = [op |-> "mod_config", table |-> data[1][1], key |-> StrK(<<>>),
                 data |-> None, before |-> tstore, bulk |-> tlast.bulk]
    /\ nops' = nops + 1
    /\ accUnchanged /\ UNCHANGED cfgVars

\* ConfigDBPipeConnector.mod_config
PipeModConfigTable(data) ==
    /\ nops < MaxOps
    /\ tstore' = pipe_mod_config(tstore, data)
    /\ tlast' = [op |-> "pipe_mod_config", table |-> data[1][1], key |-> StrK(<<>>),
                 data |-> None, before |-> tstore, bulk |-> tlast.bulk]
    /\ nops' = nops + 1
    /\ accUnchanged /\ UNCHANGED cfgVars

NextWriter ==
    \/ \E t \in Tables, k \in Keys, d \in Datas : SetEntry(t, k, d)
    \/ \E t \in Tables, k \in Keys, d \in Datas : ModEntry(t, k, d)
    \/ \E data \in SentinelSnapshots : ModConfigTable(data)
    \/ \E data \in SentinelSnapshots : PipeModConfigTable(data)
    \/ \E payload \in SetBulkPayloads : SetBulk(payload)
    \/ \E payload \in DelBulkPayloads : DelBulk(payload)
    \/ \E payload \in HdelBulkPayloads : HdelBulk(payload)

SpecWriter == InitTable /\ [][NextWriter]_vars

\* ---- the state of a connected client at rest and of an empty table store
IdleClient ==
    /\ redis_clients = {"CONFIG_DB"}
    /\ keyspace_notification_channels = {}
    /\ redis_db_map = {"CONFIG_DB"}
    /\ msgs = [n \in DbNames |-> <<>>]
    /\ live = LiveOf(DOMAIN msgs, redis_clients, keyspace_notification_channels)
    /\ pc = "idle"
    /\ cur = NoCall
    /\ attempts = 0 /\ start = 0 /\ now = 0 /\ waited = 0 /\ slept = 0
    /\ result = "none" /\ lastOutcome = "none"
    /\ up = TRUE
    /\ db = [n \in DbNames |-> {}]
    /\ ttl = {}
    /\ everPresent = FALSE /\ healthy = TRUE /\ inTime = FALSE
    /\ ncalls = 0 /\ nevents = 0 /\ nfail = 0
    /\ tstore = EmptyStore
    /\ tlast = NoOp
    /\ nops = 0

\* ---- the specification of the row codec: any row is encoded, then decoded
InitCodec ==
    /\ IdleClient
    /\ ntfIdle
    /\ codec \in {[pc |-> "row", row |-> r, raw |-> <<>>, back |-> <<>>] : r \in CodecRows}
    /\ cstore = EmptyConfigStore /\ pstore = EmptyConfigStore
    /\ clast = NoConfigOp /\ cops = 0
    /\ race = NoRace

NextCodec ==
    \/ CodecEncode
    \/ CodecDecode

SpecCodec == InitCodec /\ [][NextCodec]_vars

\* ---- the specification of the two snapshot strategies: both connectors start
\* on the same store content and are given the same calls
InitConfig ==
    /\ IdleClient
    /\ ntfIdle
    /\ codec = NoCodec
    /\ cstore \in ConfigStores
    /\ pstore = cstore
    /\ clast = [NoConfigOp EXCEPT !.cbefore = cstore, !.pbefore = cstore]
    /\ cops = 0
    /\ race = NoRace

NextConfig ==
    \/ \E data \in Snapshots : ModConfig(data)
    \/ GetConfig
    \/ \E t \in ConfigTables : DeleteTable(t)
    \/ \E data \in Snapshots1, t \in ConfigTables : PipeModConfigTableDelete(data, t)
    \/ \E payload \in PayloadsOf(ConfigStoreKeys \X BulkMappings) : ConfigSetBulk(payload)
    \/ \E payload \in PayloadsOf(ConfigStoreKeys) : ConfigDelBulk(payload)
    \/ \E payload \in PayloadsOf(ConfigStoreKeys \X BulkFields) : ConfigHdelBulk(payload)

SpecConfig == InitConfig /\ [][NextConfig]_vars

\* ---- the specification of two writers on one row
InitRace ==
    /\ IdleClient
    /\ ntfIdle
    /\ codec = NoCodec
    /\ cstore = EmptyConfigStore /\ pstore = EmptyConfigStore
    /\ clast = NoConfigOp /\ cops = 0
    /\ \E r \in {<<>>} \cup {typed_to_raw(x) : x \in RaceRows},
          d1 \in RaceDatas, d2 \in RaceDatas, op2 \in {"set_entry", "mod_entry"} :
          race = [hash |-> r, init |-> r, mixed |-> FALSE,
                  w |-> <<NewWriter("set_entry", d1), NewWriter(op2, d2)>>]

NextRace ==
    \/ \E i \in Writers : RaceDelete(i)
    \/ \E i \in Writers : RaceModEntry(i)
    \/ \E i \in Writers : RaceRead(i)
    \/ \E i \in Writers : RaceWrite(i)
    \/ \E i \in Writers : RaceHdel(i)

SpecRace == InitRace /\ [][NextRace]_vars

\* ---- the specification of the connection registry: an application that
\* connects and closes two database names, some of them connected already and
\* some with a subscription that an earlier read left open
RegNames == {"CONFIG_DB", "APPL_DB"}

InitRegistry ==
    /\ redis_clients \in SUBSET RegNames
    /\ keyspace_notification_channels \in SUBSET redis_clients
    /\ redis_db_map = redis_clients
    /\ msgs = [n \in RegNames |->
                  IF n \in keyspace_notification_channels THEN <<"psubscribe">> ELSE <<>>]
    /\ live = LiveOf(DOMAIN msgs, redis_clients, keyspace_notification_channels)
    /\ pc = "idle"
    /\ cur = NoCall
    /\ attempts = 0 /\ start = 0 /\ now = 0 /\ waited = 0 /\ slept = 0
    /\ result = "none" /\ lastOutcome = "none"
    /\ up \in BOOLEAN
    /\ db = [n \in RegNames |-> {}]
    /\ ttl = {}
    /\ everPresent = FALSE /\ healthy = TRUE /\ inTime = FALSE
    /\ ncalls = 0 /\ nevents = 0 /\ nfail = 0
    /\ tstore = EmptyStore
    /\ tlast = NoOp
    /\ nops = 0
    /\ cfgIdle

NextRegistry ==
    \/ \E n \in RegNames, r \in BOOLEAN : StartConnect(n, r)
    \/ \E n \in RegNames : CallClose(n)
    \/ Return
    \/ OnetimeConnectKnown
    \/ OnetimeConnectOk
    \/ OnetimeConnectError
    \/ PersistentConnectRetry
    \/ Fail
    \/ Recover

SpecRegistry == InitRegistry /\ [][NextRegistry]_vars

\* the connecting process keeps running: _persistent_connect is a loop with no
\* exit but success, and every pass of it ends
SpecRegistryFair ==
    /\ SpecRegistry
    /\ WF_vars(OnetimeConnectKnown)
    /\ WF_vars(OnetimeConnectOk)
    /\ WF_vars(PersistentConnectRetry)

\* ---- the specification of the dispatch loop: handlers come and go, listen
\* starts, other processes write, and the loop takes the events one by one
InitListen ==
    /\ IdleClient
    /\ codec = NoCodec
    /\ cstore = EmptyConfigStore /\ pstore = EmptyConfigStore
    /\ clast = NoConfigOp /\ cops = 0
    /\ race = NoRace
    /\ scn = NoScan /\ wfi = NoInitWait
    /\ \E st \in ListenStores :
          lsn = [NoListen EXCEPT !.pc = "start", !.store = st]

NextListen ==
    \/ \E t \in ListenTables : subscribe(t)
    \/ \E t \in ListenTables : unsubscribe(t)
    \/ ListenStart
    \/ ListenItem
    \/ ListenRead
    \/ ListenFireTest
    \/ ListenFireCall
    \/ \E h \in ListenKeys, raw \in {<<>>} \cup ListenRaws : ListenOtherWrites(h, raw)

SpecListen == InitListen /\ [][NextListen]_vars

\* ---- the specification of the enumerations: a caller reads the whole
\* configuration or a table, or deletes a table through the pipeline
InitScan ==
    /\ IdleClient
    /\ codec = NoCodec
    /\ cstore = EmptyConfigStore /\ pstore = EmptyConfigStore
    /\ clast = NoConfigOp /\ cops = 0
    /\ race = NoRace
    /\ lsn = NoListen /\ wfi = NoInitWait
    /\ \E st \in ScanStores : scn = [NoScan EXCEPT !.pc = "idle", !.store = st]

NextScan ==
    \/ ScanGetConfig
    \/ \E h \in ScanKeys : ScanGetConfigRow(h)
    \/ \E t \in ScanTables : ScanGetTable(t)
    \/ \E h \in ScanKeys : ScanGetTableRow(h)
    \/ ScanRowsReturn
    \/ PipeGetConfigStart
    \/ \E t \in ScanTables : PipeDeleteTableStart(t)
    \/ \E batch \in SUBSET ScanKeys, next \in 0..(MaxScans + 1) :
          PipeGetConfigScan(batch, next)
    \/ PipeGetConfigExecute
    \/ \E batch \in SUBSET ScanKeys, next \in 0..(MaxScans + 1) :
          PipeDeleteEntries(batch, next)
    \/ PipeExecuteDeletes
    \/ ScanReturn
    \/ \E h \in ScanKeys : ScanOtherWrites(h)

SpecScan == InitScan /\ [][NextScan]_vars

\* the caller keeps running: every scan is answered and the pipeline executes
SpecScanFair ==
    /\ SpecScan
    /\ WF_vars(\E batch \in SUBSET ScanKeys, next \in 0..(MaxScans + 1) :
                  PipeGetConfigScan(batch, next))
    /\ WF_vars(PipeGetConfigExecute)
    /\ WF_vars(\E batch \in SUBSET ScanKeys, next \in 0..(MaxScans + 1) :
                  PipeDeleteEntries(batch, next))
    /\ WF_vars(PipeExecuteDeletes)

\* ---- the specification of the wait for the init indicator: one caller of
\* connect, the indicator absent or set at the start
InitWait ==
    /\ IdleClient
    /\ codec = NoCodec
    /\ cstore = EmptyConfigStore /\ pstore = EmptyConfigStore
    /\ clast = NoConfigOp /\ cops = 0
    /\ race = NoRace
    /\ lsn = NoListen /\ scn = NoScan
    /\ \E v \in InitValues : wfi = [NoInitWait EXCEPT !.pc = "call", !.ind = v]

NextWait ==
    \/ \E wait \in BOOLEAN : DbConnect(wait)
    \/ WaitFirstGet
    \/ WaitSubscribe
    \/ WaitItem
    \/ WaitGet
    \/ WaitUnsubscribe
    \/ \E v \in InitValues : InitOtherWrites(v)

SpecWait == InitWait /\ [][NextWait]_vars

\* the caller keeps running: each of its steps is taken when it can be
SpecWaitFair ==
    /\ SpecWait
    /\ WF_vars(\E wait \in BOOLEAN : DbConnect(wait))
    /\ WF_vars(WaitFirstGet)
    /\ WF_vars(WaitSubscribe)
    /\ WF_vars(WaitItem)
    /\ WF_vars(WaitGet)
    /\ WF_vars(WaitUnsubscribe)

\* =================================================================
\* Properties of the blockable accessor (checked under Spec)
\* =================================================================
BlockingRead == cur.f \in ReadOps /\ cur.blocking
\* the call is at a store command of f
AtStoreCommand == pc \in {"attempt", "deleting"}
Finished == pc = "done" /\ cur.f \in BlockableOps

\* C1: a blocking keys/get/get_all whose data never becomes present, on a
\* transport that stays healthy, polls for notifications for at most
\* PUB_SUB_MAXIMUM_DATA_WAIT seconds in all, whatever notifications arrive,
\* and then raises UnavailableDataError.
C1_BoundedWait ==
    (BlockingRead /\ healthy /\ ~everPresent /\ lastOutcome = "UnavailableDataError")
        => /\ waited <= PUB_SUB_MAXIMUM_DATA_WAIT
           /\ (pc = "done" => result = "UnavailableDataError")

\* C2: a blocking read whose data is written by another process before the wait
\* runs out, and stays present, ends by returning the data.
C2_NoLostWakeup ==
    (Finished /\ BlockingRead /\ inTime
        /\ lastOutcome \notin {"ResponseError", "MissingClientError"})
        => result = "data"

\* The part of C2 that the code keeps: such a call never ends by reporting the
\* data unavailable, so no notification is lost between the read and the wait.
NeverUnavailableWhenWritten ==
    (Finished /\ BlockingRead /\ inTime) => result # "UnavailableDataError"

\* C3: a blockable accessor call ends only with data, None, UnavailableDataError,
\* a ResponseError or MissingClientError, never with a connection error.
C3_NoConnectionErrorExit ==
    Finished => result \in {"data", "None", "UnavailableDataError", "ResponseError",
                            "MissingClientError"}

\* C4: a call with blocking=False never waits for a notification and never
\* sleeps a connection backoff.
C4_NonBlockingNeverBlocks ==
    (cur.f \in ReadOps /\ ~cur.blocking)
        => /\ waited = 0 /\ slept = 0 /\ now = 0
           /\ pc \notin {"wait", "subscribe"}

\* C5: when an attempt of a call with blocking=False finds the data missing, the
\* call returns None in that step, takes no time, and leaves the client
\* registry, the db map, the subscriptions and their queues as they were.
C5_NonBlockingMissReturnsNone ==
    [][ (AtStoreCommand /\ pc' # pc /\ ~cur.blocking
            /\ lastOutcome' = "UnavailableDataError")
        => /\ pc' = "done" /\ result' = "None"
           /\ now' = now
           /\ UNCHANGED <<redis_clients, keyspace_notification_channels,
                          redis_db_map, msgs>> ]_vars

\* a non-blocking get of a field that holds the empty text: a miss, which
\* found a subscription open and left it open
C5_Witness ==
    /\ Finished /\ ~cur.blocking /\ result = "None"
    /\ cur.db_name \in keyspace_notification_channels
    /\ cur.f = "get" /\ <<"f", "">> \in db[cur.db_name]

\* C6: a ResponseError of an attempt ends the call in that step with that error:
\* no further attempt, no reconnect, no sleep, the registered connection kept,
\* for blocking True and False alike.
C6_SchemaErrorNotRetried ==
    [][ (AtStoreCommand /\ pc' # pc /\ lastOutcome' = "ResponseError")
        => /\ pc' = "done" /\ result' = "ResponseError"
           /\ attempts' = attempts /\ now' = now /\ slept' = slept
           /\ UNCHANGED <<redis_clients, redis_db_map>> ]_vars

\* a blocking call that had already reconnected once ends with the ResponseError
C6_Witness ==
    /\ Finished /\ cur.blocking /\ result = "ResponseError"
    /\ attempts > 0 /\ cur.db_name \in redis_clients

\* =================================================================
\* Properties of the table store (checked under SpecTable)
\* =================================================================
LastHash == HashOf(tlast.table, tlast.key)
LastEntry == get_entry(tstore, tlast.table, tlast.key)
OthersUnchanged == \A h \in StoreKeys : h # LastHash => tstore[h] = tlast.before[h]
StrOrListRow(r) == \A i \in 1..Len(r) : r[i][2].t \in {"str", "list"}
\* the value get_entry shows for a value written: a list as it is, all else as str
Shown(value) == IF value.t = "list" THEN value ELSE StrV(str(value))

\* C7: after set_entry(t, k, r), r not None with str and list values, get_entry(t, k)
\* is exactly r, whatever the row held before.
C7_SetEntryReplaces ==
    (tlast.op = "set_entry" /\ ~tlast.data.isNone /\ StrOrListRow(tlast.data.d))
        => DictEq(LastEntry, tlast.data.d)

\* C8: after mod_entry(t, k, r), r not None, get_entry(t, k) is the prior row
\* overridden by r, no field of the hash is gone, and every other row is as before.
C8_ModEntryUpserts ==
    (tlast.op = "mod_entry" /\ ~tlast.data.isNone)
        => LET p == get_entry(tlast.before, tlast.table, tlast.key)
               r == tlast.data.d
           IN /\ DictKeys(LastEntry) = DictKeys(p) \cup DictKeys(r)
              /\ \A f \in DictKeys(r) : DictGet(LastEntry, f) = Shown(DictGet(r, f))
              /\ \A f \in DictKeys(p) \ DictKeys(r) : DictGet(LastEntry, f) = DictGet(p, f)
              /\ DictKeys(tlast.before[LastHash]) \subseteq DictKeys(tstore[LastHash])
              /\ OthersUnchanged

\* C9: after set_entry(t, k, {}) the key exists and holds NULL=NULL, get_entry(t, k)
\* is {} and get_table(t) maps k to {}; an absent row is in no get_table.
C9_EmptyRowExists ==
    /\ (tlast.op = "set_entry" /\ tlast.data = Some(<<>>))
          => /\ exists(tstore, LastHash)
             /\ DictHas(tstore[LastHash], NULL) /\ DictGet(tstore[LastHash], NULL) = NULL
             /\ LastEntry = <<>>
             /\ tlast.key \in DOMAIN get_table(tstore, tlast.table)
             /\ get_table(tstore, tlast.table)[tlast.key] = <<>>
    /\ \A t \in Tables, k \in Keys :
          ~exists(tstore, HashOf(t, k)) => k \notin DOMAIN get_table(tstore, t)

\* C10: set_entry(t, k, None) and mod_entry(t, k, None) remove the key: it does
\* not exist, get_entry(t, k) is {}, and every other key is as before.
C10_NoneDeletes ==
    (tlast.op \in {"set_entry", "mod_entry"} /\ tlast.data.isNone)
        => /\ ~exists(tstore, LastHash)
           /\ LastEntry = <<>>
           /\ tlast.key \notin DOMAIN get_table(tstore, tlast.table)
           /\ OthersUnchanged

\* set_entry(t, k, None) on a row that held fields, another row staying behind
C10_Witness ==
    /\ tlast.op = "set_entry" /\ tlast.data.isNone
    /\ Len(tlast.before[LastHash]) > 1
    /\ \E h \in StoreKeys : h # LastHash /\ exists(tstore, h)

\* =================================================================
\* Properties of the row codec (checked under SpecCodec)
\* =================================================================
\* a row of str and list-of-str values, no field name ending in "@", no comma
\* in a list element
InCodecScope(row) ==
    \A i \in 1..Len(row) :
        /\ ~endswith(row[i][1], "@")
        /\ row[i][2].t \in {"str", "list"}
        /\ row[i][2].t = "list" =>
              \A j \in 1..Len(row[i][2].v) : \A c \in 1..Len(row[i][2].v[j]) :
                  row[i][2].v[j][c] # ","

\* C11: raw_to_typed(typed_to_raw(row)) == row for every row in scope, the empty
\* row and rows with empty lists included; a list field F is encoded as F@ with
\* its elements joined by commas, the empty row as NULL=NULL.
C11_CodecRoundTrip ==
    (codec.pc = "back" /\ InCodecScope(codec.row))
        => /\ DictEq(codec.back, codec.row)
           /\ codec.row = <<>> => codec.raw = <<<<NULL, NULL>>>>
           /\ \A i \in 1..Len(codec.row) :
                 codec.row[i][2].t = "list" =>
                    /\ DictHas(codec.raw, Append(codec.row[i][1], "@"))
                    /\ DictGet(codec.raw, Append(codec.row[i][1], "@"))
                          = join(<<",">>, codec.row[i][2].v)

\* The part of C11 that the code keeps: the round trip of rows in scope that have
\* no empty list and no field named NULL.
CodecRoundTripOfFilledRows ==
    (codec.pc = "back" /\ InCodecScope(codec.row)
        /\ \A i \in 1..Len(codec.row) :
              codec.row[i][1] # NULL /\ codec.row[i][2] # ListV(<<>>))
        => DictEq(codec.back, codec.row)

\* =================================================================
\* Properties of tables and snapshots (checked under SpecConfig)
\* =================================================================
\* the (table, key, row) triples of a snapshot, in the order mod_config visits them
RECURSIVE RowsOfData(_)
RowsOfData(data) ==
    IF data = <<>> THEN <<>>
    ELSE (IF data[1][2].isNone THEN <<>>
          ELSE [i \in 1..Len(data[1][2].d) |->
                   [table |-> data[1][1], key |-> data[1][2].d[i][1],
                    data |-> data[1][2].d[i][2]]])
         \o RowsOfData(Tail(data))

NamesNone(data) == {data[i][1] : i \in {j \in 1..Len(data) : data[j][2].isNone}}
ListedHashes(data) ==
    {HashOf(RowsOfData(data)[i].table, RowsOfData(data)[i].key) :
        i \in 1..Len(RowsOfData(data))}

\* C12: get_table(t) returns exactly the rows stored under TABLE<sep>, each under
\* the key it was written with (scalar, or tuple of two or more parts), and
\* deserialize_key(serialize_key(key)) == key.
C12_KeyRoundTrip ==
    /\ \A k \in Keys : deserialize_key(serialize_key(k)) = k
    /\ \A t \in ConfigTables :
          get_table(cstore, t) =
              [k \in {x \in ConfigKeysOf(t) : exists(cstore, HashOf(t, x))} |->
                  raw_to_typed(hgetall(cstore, HashOf(t, k)))]

\* mod_config wrote a row under a tuple key, a row of another table is in the
\* store, and get_table returns the row under the tuple
C12_Witness ==
    /\ clast.op = "mod_config"
    /\ \E i \in 1..Len(RowsOfData(clast.data)) :
          LET e == RowsOfData(clast.data)[i]
          IN /\ e.key.t = "tuple" /\ ~e.data.isNone
             /\ e.key \in DOMAIN get_table(cstore, e.table)
             /\ ~exists(clast.cbefore, HashOf(e.table, e.key))
    /\ exists(cstore, HashOf(<<"t", "u">>, StrK(<<"k">>)))

\* C13: given the same calls from the same store content, ConfigDBConnector and
\* ConfigDBPipeConnector leave the same store content after every call and
\* return the same get_config.
C13_StrategiesEquivalent ==
    /\ cstore = pstore
    /\ clast.cres = clast.pres

\* C14: the pipelined mod_config(data, table_delete=T) removes the rows of T and
\* then writes data: every field of data holds its new value and no other field
\* of the old rows of T is left.
C14_TableDeleteThenWrite ==
    (clast.op = "mod_config_table_delete")
        => /\ clast.error = "none"
           /\ \A i \in 1..Len(RowsOfData(clast.data)) :
                 LET e == RowsOfData(clast.data)[i]
                     h == HashOf(e.table, e.key)
                 IN ~e.data.isNone =>
                       \A j \in 1..Len(typed_to_raw(e.data.d)) :
                           /\ DictHas(pstore[h], typed_to_raw(e.data.d)[j][1])
                           /\ DictGet(pstore[h], typed_to_raw(e.data.d)[j][1])
                                 = typed_to_raw(e.data.d)[j][2]
           /\ \A h \in keys(clast.pbefore, TablePattern(clast.table)) :
                 \A f \in DictKeys(clast.pbefore[h]) :
                     DictHas(pstore[h], f) =>
                        \E i \in 1..Len(RowsOfData(clast.data)) :
                            LET e == RowsOfData(clast.data)[i]
                            IN /\ HashOf(e.table, e.key) = h /\ ~e.data.isNone
                               /\ DictHas(typed_to_raw(e.data.d), f)

\* the raw fields that the rows of `data` stored under h name
NamedFields(data, h) ==
    UNION { IF HashOf(RowsOfData(data)[i].table, RowsOfData(data)[i].key) = h
                /\ ~RowsOfData(data)[i].data.isNone
            THEN DictKeys(typed_to_raw(RowsOfData(data)[i].data.d))
            ELSE {} : i \in 1..Len(RowsOfData(data)) }

\* store `st` is store `before` with the rows of `data` merged in
Merged(st, before, data) ==
    /\ \A i \in 1..Len(RowsOfData(data)) :
          LET e == RowsOfData(data)[i]
              h == HashOf(e.table, e.key)
          IN ~e.data.isNone =>
                \A j \in 1..Len(typed_to_raw(e.data.d)) :
                    /\ DictHas(st[h], typed_to_raw(e.data.d)[j][1])
                    /\ DictGet(st[h], typed_to_raw(e.data.d)[j][1])
                          = typed_to_raw(e.data.d)[j][2]
    /\ \A h \in DOMAIN st : h \notin ListedHashes(data) => st[h] = before[h]
    /\ \A h \in ListedHashes(data) :
          \A f \in DictKeys(before[h]) \ NamedFields(data, h) :
              DictHas(st[h], f) /\ DictGet(st[h], f) = DictGet(before[h], f)

NoRowNone(data) ==
    \A i \in 1..Len(RowsOfData(data)) : ~RowsOfData(data)[i].data.isNone
\* no two names of the snapshot spell the same table
NoAlias(data) ==
    \A i, j \in 1..Len(data) : i # j => upper(data[i][1]) # upper(data[j][1])

\* C15 as stated: mod_config(data) with no table mapped to None leaves, in both
\* strategies, every field of data written, every entry not listed as it was and
\* every field of a listed row that data does not name as it was.
C15_ModConfigMerges ==
    (clast.op = "mod_config" /\ NamesNone(clast.data) = {})
        => /\ Merged(cstore, clast.cbefore, clast.data)
           /\ Merged(pstore, clast.pbefore, clast.data)

\* C15: mod_config(data) with no table and no row mapped to None, and no table
\* named twice in different letter cases, is a pure merge in both strategies.
C15_ModConfigMergesRows ==
    (clast.op = "mod_config" /\ NamesNone(clast.data) = {}
        /\ NoRowNone(clast.data) /\ NoAlias(clast.data))
        => /\ Merged(cstore, clast.cbefore, clast.data)
           /\ Merged(pstore, clast.pbefore, clast.data)

\* a snapshot of rows of two tables was merged into rows that held another
\* field, an entry it does not list staying behind
C15_Witness ==
    /\ clast.op = "mod_config" /\ NamesNone(clast.data) = {}
    /\ NoRowNone(clast.data) /\ NoAlias(clast.data)
    /\ Len(clast.data) = 2
    /\ \A h \in ListedHashes(clast.data) :
          DictKeys(clast.cbefore[h]) \ NamedFields(clast.data, h) # {}
    /\ \E h \in DOMAIN cstore : h \notin ListedHashes(clast.data) /\ exists(cstore, h)
    /\ cstore = pstore

\* the table that `name` spells is absent from the store
TableGone(st, name) ==
    /\ keys(st, TablePattern(name)) = {}
    /\ DOMAIN get_table(st, name) = {}
\* every key outside the tables that `names` spell is as before
OtherTablesKept(st, before, names) ==
    \A h \in DOMAIN st :
        (\A n \in names : ~startswith(h, TablePattern(n))) => st[h] = before[h]
\* the tables a snapshot maps to None without writing rows of them afterwards
TablesDeleted(data) ==
    {data[i][1] : i \in {j \in 1..Len(data) :
        /\ data[j][2].isNone
        /\ \A l \in 1..Len(data) : upper(data[l][1]) = upper(data[j][1]) => l <= j}}
TableNames(data) == {data[i][1] : i \in 1..Len(data)}

\* C16: delete_table(T), and mod_config with T mapped to None in either strategy,
\* removes every key under TABLE<sep> and no key of a table it does not name.
C16_TableDeletion ==
    /\ clast.op = "delete_table" =>
          /\ TableGone(cstore, clast.table) /\ TableGone(pstore, clast.table)
          /\ OtherTablesKept(cstore, clast.cbefore, {clast.table})
          /\ OtherTablesKept(pstore, clast.pbefore, {clast.table})
    /\ clast.op = "mod_config" =>
          /\ \A t \in TablesDeleted(clast.data) :
                TableGone(cstore, t) /\ TableGone(pstore, t)
          /\ OtherTablesKept(cstore, clast.cbefore, TableNames(clast.data))
          /\ OtherTablesKept(pstore, clast.pbefore, TableNames(clast.data))

\* The part of C16 that the code keeps: delete_table, and mod_config of
\* ConfigDBConnector.
TableDeletionPerKey ==
    /\ clast.op = "delete_table" =>
          /\ TableGone(cstore, clast.table) /\ TableGone(pstore, clast.table)
          /\ OtherTablesKept(cstore, clast.cbefore, {clast.table})
          /\ OtherTablesKept(pstore, clast.pbefore, {clast.table})
    /\ clast.op = "mod_config" =>
          /\ \A t \in TablesDeleted(clast.data) : TableGone(cstore, t)
          /\ OtherTablesKept(cstore, clast.cbefore, TableNames(clast.data))
          /\ OtherTablesKept(pstore, clast.pbefore, TableNames(clast.data))

\* =================================================================
\* Properties of two writers on one row (checked under SpecRace)
\* =================================================================
RaceStore(hash) == [h \in {RaceHash} |-> hash]
\* the row after writer w ran its whole call alone on `hash`
AloneOn(w, hash) ==
    IF w.op = "set_entry"
    THEN set_entry(RaceStore(hash), RaceTable, RaceKey, w.data)[RaceHash]
    ELSE mod_entry(RaceStore(hash), RaceTable, RaceKey, w.data)[RaceHash]
Serial12 == AloneOn(race.w[2], AloneOn(race.w[1], race.init))
Serial21 == AloneOn(race.w[1], AloneOn(race.w[2], race.init))

RaceDone == \A i \in Writers : race.w[i].pc = "done"
\* both calls are over and the row is the result of neither serial order
NonSerial ==
    /\ RaceDone
    /\ ~DictEq(race.hash, Serial12)
    /\ ~DictEq(race.hash, Serial21)

\* a field the other writer wrote was deleted as stale and is gone
LostField ==
    \E i \in Writers : \E f \in race.w[i].deleted :
        LET o == race.w[3 - i]
        IN /\ ~o.data.isNone
           /\ DictHas(typed_to_raw(o.data.d), f)
           /\ ~DictHas(race.hash, f)
\* the row holds together fields that no serial order leaves together
StaleOfBothSurvive ==
    /\ DictKeys(race.hash) \ DictKeys(Serial12) # {}
    /\ DictKeys(race.hash) \ DictKeys(Serial21) # {}

\* C17: the read, write and delete steps of set_entry are separate store
\* commands that another writer's commands can fall between: calls that do not
\* interleave leave the row of a serial order, and interleaved calls reach rows
\* that no serial order of the two calls gives.
C17_SetEntryNotAtomic ==
    /\ NonSerial => race.mixed
    /\ (RaceDone /\ ~race.mixed) =>
          (DictEq(race.hash, Serial12) \/ DictEq(race.hash, Serial21))

\* two set_entry calls interleaved and ended in a row that neither serial order
\* gives, fields of both calls left together
C17_Witness ==
    /\ NonSerial /\ race.mixed
    /\ race.w[1].op = "set_entry" /\ race.w[2].op = "set_entry"
    /\ StaleOfBothSurvive

\* a set_entry and a mod_entry interleaved and ended in a row that neither
\* serial order gives, a field written by the mod_entry deleted by the set_entry
RaceLostField ==
    /\ NonSerial /\ race.mixed
    /\ race.w[2].op = "mod_entry"
    /\ LostField

\* =================================================================
\* Properties of the connection registry (checked under SpecRegistry and
\* SpecRegistryFair)
\* =================================================================
\* a subscription belongs to a registered connection
ChannelsHaveClients == keyspace_notification_channels \subseteq redis_clients

OthersUntouched(n) ==
    /\ redis_clients' \ {n} = redis_clients \ {n}
    /\ keyspace_notification_channels' \ {n} = keyspace_notification_channels \ {n}
    /\ \A m \in DOMAIN msgs : m # n => msgs'[m] = msgs[m]

\* C18: connect(retry_on=False) ends in its first step: either the attempt fails
\* and the connection error is raised with no sleep and no connection registered
\* for the name, or the call returns with a connection registered for the name.
C18_OnetimeConnect ==
    [][ (pc = "connect" /\ ~cur.retry_on /\ pc' # pc)
        => /\ pc' = "done"
           /\ now' = now /\ slept' = slept
           /\ \/ /\ result' = "ConnectionError"
                 /\ ~up /\ cur.db_name \notin redis_clients
                 /\ cur.db_name \notin redis_clients'
              \/ /\ result' = "ok"
                 /\ cur.db_name \in redis_clients'
                 /\ (up \/ cur.db_name \in redis_clients)
           /\ OthersUntouched(cur.db_name) ]_vars

\* connect(retry_on=False) failed while another name stays connected
C18_Witness ==
    /\ pc = "done" /\ cur.f = "connect" /\ ~cur.retry_on
    /\ result = "ConnectionError"
    /\ cur.db_name \notin redis_clients
    /\ redis_clients # {}

PersistentConnecting == pc = "connect" /\ cur.retry_on

\* C19: connect(retry_on=True) never ends with a connection error and, when it
\* ends, a connection is registered for the name; a failed attempt closes the
\* name and sleeps CONNECT_RETRY_WAIT_TIME before the next; and if the store
\* becomes and stays reachable the call returns.
C19_PersistentConnect ==
    /\ []((pc = "done" /\ cur.f = "connect" /\ cur.retry_on)
              => (result = "ok" /\ cur.db_name \in redis_clients))
    /\ [][ (PersistentConnecting /\ pc' = pc /\ slept' # slept)
              => /\ ~up
                 /\ slept' = slept + CONNECT_RETRY_WAIT_TIME
                 /\ cur.db_name \notin redis_clients'
                 /\ cur.db_name \notin keyspace_notification_channels' ]_vars
    /\ (<>[]up) => [](PersistentConnecting => <>(pc = "done"))

\* connect(retry_on=True) returned after a backoff sleep
C19_Witness ==
    /\ pc = "done" /\ cur.f = "connect" /\ cur.retry_on
    /\ slept >= CONNECT_RETRY_WAIT_TIME
    /\ result = "ok" /\ cur.db_name \in redis_clients

\* C20: close(name) removes the connection and the subscription of that name,
\* touches no other name, raises nothing, and changes nothing when the name has
\* neither (so a second close in a row changes nothing).
C20_CloseIdempotent ==
    [][ (pc = "idle" /\ cur'.f = "close")
        => LET n == cur'.db_name
           IN /\ pc' = "done" /\ result' = "ok"
              /\ n \notin redis_clients'
              /\ n \notin keyspace_notification_channels'
              /\ OthersUntouched(n)
              /\ (n \notin redis_clients /\ n \notin keyspace_notification_channels)
                    => UNCHANGED <<redis_clients, keyspace_notification_channels, msgs>> ]_vars

\* a name was closed while another name keeps its connection and its subscription
C20_Witness ==
    /\ pc = "done" /\ cur.f = "close"
    /\ cur.db_name \notin redis_clients
    /\ cur.db_name \notin keyspace_notification_channels
    /\ \E m \in RegNames : m # cur.db_name /\ m \in redis_clients
                           /\ m \in keyspace_notification_channels

\* =================================================================
\* Properties of connections and subscriptions (checked under Spec)
\* =================================================================
\* C21: every name has at most one connected client object at any moment, and a
\* connect on a name that is registered creates no client and leaves the
\* registered one in place.
C21_OneConnectionPerName ==
    /\ [](\A n \in DOMAIN msgs :
            /\ live.clients[n] <= 1
            /\ n \in redis_clients => live.clients[n] = 1)
    /\ [][ (Connecting /\ cur.db_name \in redis_clients /\ pc' # pc)
              => UNCHANGED <<redis_clients, redis_db_map, live>> ]_vars

\* an accessor call lost its connection, reconnected, and holds one client
\* object again while the store is down once more
C21_Witness ==
    /\ pc = "attempt" /\ attempts > 0 /\ ~up
    /\ cur.db_name \in redis_clients
    /\ live.clients[cur.db_name] = 1

\* C22: a lookup or an attempt of an accessor call on a name with no registered
\* client ends the call in that step with MissingClientError: no retry, no
\* sleep, no reconnect, no client and no subscription created.
C22_MissingClient ==
    [][ ( \/ (AtStoreCommand /\ pc' # pc /\ cur.db_name \notin redis_clients)
          \/ (pc = "idle"
                 /\ cur'.f \in {"get_redis_client", "expire", "publish", "exists"}
                 /\ cur'.db_name \notin redis_clients) )
        => /\ pc' = "done" /\ result' = "MissingClientError"
           /\ attempts' = attempts /\ now' = now /\ slept' = slept
           /\ UNCHANGED <<redis_clients, keyspace_notification_channels,
                          redis_db_map, msgs, live>> ]_vars

\* a blocking accessor call on an unregistered name ended with MissingClientError
\* while the store was reachable
C22_Witness ==
    /\ Finished /\ cur.blocking /\ up
    /\ result = "MissingClientError"
    /\ cur.db_name \notin redis_clients
    /\ attempts = 0 /\ now = 0

\* C25: a transport failure of an attempt adds exactly one to attempts, which
\* nothing else changes while the call runs; then the name's connection and
\* subscription are closed, then CONNECT_RETRY_WAIT_TIME is slept, then the
\* persistent connect runs; the next attempt starts with a client registered,
\* so after a connection failure no attempt raises MissingClientError.
C25_ConnectionFailureOrder ==
    /\ [][ (AtStoreCommand /\ pc' # pc /\ lastOutcome' = "RedisError")
              => /\ attempts' = attempts + 1
                 /\ pc' = "ceh_close"
                 /\ now' = now
                 /\ UNCHANGED <<redis_clients, keyspace_notification_channels>> ]_vars
    /\ [][ (pc = "ceh_close" /\ pc' # pc)
              => /\ pc' = "ceh_sleep"
                 /\ cur.db_name \notin redis_clients'
                 /\ cur.db_name \notin keyspace_notification_channels'
                 /\ now' = now /\ attempts' = attempts ]_vars
    /\ [][ (pc = "ceh_sleep" /\ pc' # pc)
              => /\ pc' = "ceh_connect"
                 /\ now' = now + CONNECT_RETRY_WAIT_TIME
                 /\ cur.db_name \notin redis_clients'
                 /\ attempts' = attempts ]_vars
    /\ [][ (pc = "ceh_connect" /\ pc' # pc)
              => /\ pc' = "attempt"
                 /\ cur.db_name \in redis_clients'
                 /\ attempts' = attempts ]_vars
    /\ [][ InCall => \/ attempts' = attempts
                     \/ /\ attempts' = attempts + 1
                        /\ AtStoreCommand /\ lastOutcome' = "RedisError" ]_vars
    /\ []((cur.f \in BlockableOps /\ attempts > 0)
              => /\ lastOutcome # "MissingClientError"
                 /\ result # "MissingClientError"
                 /\ AtStoreCommand => cur.db_name \in redis_clients)

\* the third attempt of a call is about to start: two transport failures were
\* counted, two backoffs slept, and a client is registered again
C25_Witness ==
    /\ pc = "attempt" /\ attempts = 2
    /\ lastOutcome = "RedisError"
    /\ slept >= 2 * CONNECT_RETRY_WAIT_TIME
    /\ cur.db_name \in redis_clients

\* C26: when a blockable call returns data, and when a blocking call raises
\* UnavailableDataError after the wait ran out, no subscription is open for the
\* name of the call.
C26_SubscriptionTeardown ==
    (Finished /\ result \in {"data", "UnavailableDataError"})
        => /\ cur.db_name \notin keyspace_notification_channels
           /\ live.pubsubs[cur.db_name] = 0

\* a blocking get was woken by a notification, found the field holding the
\* empty text, waited anew the whole PUB_SUB_MAXIMUM_DATA_WAIT and raised
C26_Witness ==
    /\ Finished /\ cur.blocking /\ result = "UnavailableDataError"
    /\ now - start >= PUB_SUB_MAXIMUM_DATA_WAIT
    /\ cur.db_name \in redis_clients
    /\ cur.db_name \notin keyspace_notification_channels
    /\ cur.f = "get" /\ <<"f", "">> \in db[cur.db_name] /\ healthy /\ start > 0

\* C27: the names with an open subscription are names with a registered client,
\* and no name has more than one pubsub open.
C27_SubscriptionsHaveConnections ==
    /\ keyspace_notification_channels \subseteq redis_clients
    /\ \A n \in DOMAIN msgs :
          /\ live.pubsubs[n] <= 1
          /\ live.pubsubs[n] = 1 => (n \in keyspace_notification_channels
                                       /\ n \in redis_clients)

\* a blocking read subscribed again after a connection failure closed its
\* first subscription
C27_Witness ==
    /\ pc = "wait" /\ attempts > 0
    /\ cur.db_name \in keyspace_notification_channels
    /\ cur.db_name \in redis_clients
    /\ live.pubsubs[cur.db_name] = 1

\* C30: however a blockable call ends, no subscription that was opened during
\* the call is still open.
C30_NoSubscriptionLeak ==
    Finished => ~live.opened

\* The part of C30 that the code keeps: the exits with data, None,
\* UnavailableDataError and MissingClientError.
NoLeakOnReturn ==
    (Finished /\ result \in {"data", "None", "UnavailableDataError", "MissingClientError"})
        => ~live.opened

\* =================================================================
\* Properties of the dispatch loop (checked under SpecListen)
\* =================================================================
\* the dispatch of the last item is over and no other thread changed the
\* handler of its table meanwhile
DispatchOver == lsn.pc \in {"loop", "raised"} /\ lsn.last.steady
\* the one call a dispatch of `last` owes when the row key is passed as `key`
OwedCall(last, key) ==
    <<[table |-> TableNameOf(last.key), key |-> key, data |-> raw_to_typed(last.raw)]>>

\* C23: for a change event on a key TABLE<sep>row whose table has a handler,
\* the handler is called exactly once with the table, the decoded row key (a
\* tuple for a key of several parts) and the typed row read from the store at
\* the dispatch; for a table with no handler nothing is called and nothing read.
C23_ChangeDispatch ==
    (DispatchOver /\ lsn.last.type = "pmessage" /\ TableFormatted(lsn.last.key))
        => IF TableNameOf(lsn.last.key) \in lsn.last.handlers
           THEN lsn.last.read /\ lsn.last.calls = OwedCall(lsn.last, RowOf(lsn.last.key))
           ELSE ~lsn.last.read /\ lsn.last.calls = <<>>

\* The part of C23 that the code keeps: the same dispatch with the row key as
\* the text after the first separator, not decoded.
ChangeDispatchRawKey ==
    (DispatchOver /\ lsn.last.type = "pmessage" /\ TableFormatted(lsn.last.key))
        => IF TableNameOf(lsn.last.key) \in lsn.last.handlers
           THEN /\ lsn.last.read
                /\ lsn.last.calls =
                      OwedCall(lsn.last,
                               StrK(split1(lsn.last.key, TABLE_NAME_SEPARATOR[1])[2]))
           ELSE ~lsn.last.read /\ lsn.last.calls = <<>>

\* =================================================================
\* Properties of the enumerations (checked under SpecScan and SpecScanFair)
\* =================================================================
\* the operation is over and no other process wrote since it began
ScanDoneQuiet(ops) == scn.pc = "done" /\ scn.last.op \in ops /\ scn.last.quiet
\* the table-formatted keys of a store
WellFormedKeys(st) == {h \in ScanKeys : exists(st, h) /\ TableFormatted(h)}
\* the rows of a table of the store, under their row keys
WellFormedRows(st, table) ==
    [rk \in {k \in {StrK(<<"k">>)} : exists(st, HashOf(table, k))} |->
        raw_to_typed(hgetall(st, HashOf(table, rk)))]

\* C24: with keys that hold no separator in the store, get_table, get_config of
\* ConfigDBConnector and get_config of ConfigDBPipeConnector raise nothing and
\* return exactly the rows of the table-formatted keys.
C24_MalformedKeysSkipped ==
    /\ ScanDoneQuiet({"get_table"})
          => /\ scn.last.error = "none"
             /\ scn.last.rows = WellFormedRows(scn.last.before, scn.last.table)
    /\ ScanDoneQuiet({"get_config", "pipe_get_config"})
          => /\ scn.last.error = "none"
             /\ scn.last.config = ConfigOf(scn.last.before, WellFormedKeys(scn.last.before))

\* The part of C24 that the code keeps: get_table, and get_config of
\* ConfigDBConnector.
MalformedKeysSkippedPerKey ==
    /\ ScanDoneQuiet({"get_table"})
          => /\ scn.last.error = "none"
             /\ scn.last.rows = WellFormedRows(scn.last.before, scn.last.table)
    /\ ScanDoneQuiet({"get_config"})
          => /\ scn.last.error = "none"
             /\ scn.last.config = ConfigOf(scn.last.before, WellFormedKeys(scn.last.before))

InCursorLoop == scn.last.op \in {"pipe_get_config", "pipe_mod_config"}
LastReturned == scn.returned[Len(scn.returned)]

\* the first scan is given cursor 0 and every later scan the nonzero cursor the
\* scan before it returned
CursorProtocol ==
    InCursorLoop
        => /\ Len(scn.passed) = Len(scn.returned)
           /\ \A i \in 1..Len(scn.passed) :
                 scn.passed[i] = IF i = 1 THEN 0 ELSE scn.returned[i - 1]
           /\ \A i \in 1..(Len(scn.passed) - 1) : scn.returned[i] # 0
           /\ scn.pc = "scan" =>
                 /\ scn.cur = IF scn.returned = <<>> THEN 0 ELSE LastReturned
                 /\ scn.returned # <<>> => LastReturned # 0

\* the loop is over: the last scan returned 0, every key present during the
\* whole enumeration was read or queued, and with no writer in between the
\* outcome is that of a store enumerated once, without duplicates
EnumerationComplete ==
    (InCursorLoop /\ scn.pc \in {"execute", "done"})
        => /\ LastReturned = 0
           /\ scn.last.op = "pipe_get_config" =>
                 /\ (scn.stable \ {INIT_INDICATOR}) \subseteq scn.got
                 /\ scn.last.quiet =>
                       scn.last.config =
                           ConfigOf(scn.last.before, WellFormedKeys(scn.last.before))
           /\ scn.last.op = "pipe_mod_config" =>
                 /\ scn.stable \subseteq scn.queued
                 /\ (scn.pc = "done" /\ scn.last.quiet) =>
                       scn.store = delete_table(scn.last.before, scn.last.table)

\* C28: get_config and the table deletion of mod_config of ConfigDBPipeConnector
\* scan from cursor 0 and go on with the cursor returned until a scan returns 0;
\* on a store whose scan returns every key present throughout and returns 0
\* after finitely many scans, the loop ends, every such key was read or queued
\* for deletion, and duplicates in the scan's answers do not change the outcome.
C28_CursorEnumeration ==
    /\ [](CursorProtocol /\ EnumerationComplete)
    /\ (scn.pc = "scan") ~> (scn.pc = "done")

\* The part of C28 that the code keeps: the enumerations that no key without a
\* separator ends with ValueError.
CursorEnumerationOfTableKeys ==
    /\ [](CursorProtocol /\ (scn.last.error = "none" => EnumerationComplete))
    /\ (scn.pc = "scan") ~> (scn.pc = "done")

\* an enumeration of three scans whose answers repeated a key ended complete
CursorEnumerationReached ==
    /\ InCursorLoop /\ scn.pc = "done" /\ scn.last.error = "none"
    /\ scn.nscans = 3 /\ scn.last.quiet
    /\ Cardinality(scn.seen) >= 2

\* the indicator holds a non-empty value
IndicatorSet == Initialized(wfi.ind)

\* C29: connect(wait_for_init=True) has no lost wake-up: when another process
\* sets CONFIG_DB_INITIALIZED at any moment (before the call, between the first
\* check and the subscription, or after the subscription) and it stays set,
\* the call eventually returns.
C29_NoLostWakeup == (<>[]IndicatorSet) => <>(wfi.pc = "done")

\* The part of C29 that the code keeps: the call returns when the latest change
\* of the indicator came before the first check or after the subscription.
WakeupWhenNotified == (<>[](IndicatorSet /\ ~wfi.missed)) => <>(wfi.pc = "done")

\* the caller was woken by a notification: the indicator was absent at the first
\* check, set after the subscription, and the call returned
WakeupReached ==
    /\ wfi.pc = "done" /\ wfi.wait /\ ~wfi.missed
    /\ ~wfi.subscribed /\ wfi.nev >= 1 /\ Initialized(wfi.initialized)

\* the caller sleeps on an empty pubsub while the indicator is set
LostWakeupReached ==
    /\ wfi.pc = "listen" /\ wfi.queue = <<>> /\ IndicatorSet /\ wfi.missed

\* the hash holds the placeholder field
HasSentinel(hash) == DictHas(hash, NULL)

\* C31: after any sequence of set_entry, mod_entry and mod_config calls of one
\* writer with rows that name no field NULL, a stored hash holds the
\* placeholder NULL=NULL only when it holds no other field.
C31_SentinelOnlyWhenEmpty ==
    ~tlast.bulk => \A h \in StoreKeys : HasSentinel(tstore[h]) => Len(tstore[h]) = 1

\* The part of C31 that the code keeps: the placeholder always holds the text
\* NULL, and a hash that holds it beside other fields was written once with the
\* empty row: no write of a row with fields puts the placeholder into a hash
\* that did not hold it.
SentinelFromEmptyRow ==
    /\ \A h \in StoreKeys :
          HasSentinel(tstore[h]) => DictGet(tstore[h], NULL) = NULL
    /\ (tlast.op \in {"set_entry", "mod_entry"} /\ ~tlast.data.isNone
           /\ tlast.data.d # <<>>)
          => \A h \in StoreKeys :
                HasSentinel(tstore[h]) => HasSentinel(tlast.before[h])

\* a row written empty and then given a field keeps the placeholder beside it
SentinelBesideFieldReached ==
    \E h \in StoreKeys :
        /\ HasSentinel(tstore[h]) /\ Len(tstore[h]) = 2
        /\ tlast.op = "mod_config" /\ ~tlast.bulk

====
